---------------------------- MODULE Spec2Model ----------------------------
(***************************************************************************)
(* A model of toil's grid-engine job adapter                               *)
(* (src/toil/batchSystems/gridengine.py), of the abstract cluster          *)
(* provisioner (src/toil/provisioners/abstractProvisioner.py) and of the   *)
(* directory rename test (src/toil/test/src/systemTest.py).                *)
(*                                                                         *)
(* The module holds several specifications, one per subsystem.  Each one   *)
(* drives the variables of its own subsystem and leaves all the others at  *)
(* their initial value:                                                    *)
(*   SpecExit   GridEngineThread.getJobExitCode                            *)
(*   SpecRun    GridEngineThread.getRunningJobIDs, run concurrently with   *)
(*              the thread that updates the tracked jobs                   *)
(*   SpecAuto   AbstractProvisioner.setAutoscaledNodeTypes and the two     *)
(*              accessors of the tables it builds                          *)
(*   SpecProv   leader-worker authentication (establish, forget) and the   *)
(*              generation of bootstrap documents                          *)
(*   SpecShape  Shape: equality, ordering, hashing, and use as a dict key  *)
(*   SpecCtor   AbstractProvisioner.__init__                               *)
(*   SpecConfig InstanceConfiguration: the add calls and the rendering     *)
(*   SpecQsub   GridEngineThread.prepareSubmission and prepareQsub         *)
(*   SpecBoot   the one-time Kubernetes setup units of a node, across      *)
(*              failures and reboots                                       *)
(*   SpecAdapter  the four adapter methods as a caller uses them:          *)
(*              submitJob, killJob, getRunningJobIDs, getJobExitCode       *)
(*   SpecRename the tasks of testAtomicityOfNonEmptyDirectoryRenames,      *)
(*              call by call in any order                                  *)
(*   SpecShared setAutoscaledNodeTypes in one thread and                   *)
(*              getAutoscaledInstanceShapes in another, statement by       *)
(*              statement                                                  *)
(***************************************************************************)
EXTENDS Integers, Sequences, FiniteSets, TLC

(***************************************************************************)
(* Bounds of the model.                                                    *)
(***************************************************************************)
\* longest accounting (qacct) output, in lines
MaxLines == 2

\* number of jobs the batch system is given
MaxJobs == 2

\* most updates of the tracked jobs made under one hold of the lock
MaxTxnSteps == 2

\* longest queue listing (qstat), in lines
MaxListing == 2

\* longest list of node types given to setAutoscaledNodeTypes
MaxNodeTypes == 2

\* most add calls made on one InstanceConfiguration
MaxAdds == 3

\* most renderings of an InstanceConfiguration between two add calls
MaxRenders == 2

(***************************************************************************)
(* Values shared by the subsystems.                                        *)
(***************************************************************************)
\* Python's None
None == [tag |-> "None"]

\* a Python int
Int_(n) == [tag |-> "int", v |-> n]

\* a Python float, in hundredths
Float_(n) == [tag |-> "float", v |-> n]

\* a Python dict
Dict_(d) == [tag |-> "dict", v |-> d]

\* a list
List_(l) == [tag |-> "list", v |-> l]

\* an attribute that has not been assigned (hasattr is false)
Unset == [tag |-> "unset"]

\* a Python str, as its characters
Str_(chars) == [tag |-> "str", v |-> chars]

Range(s) == {s[i] : i \in DOMAIN s}

\* the decimal digits, as characters
Digits == <<"0", "1", "2", "3", "4", "5", "6", "7", "8", "9">>

\* the value of a digit character
DigitValue(c) == (CHOOSE i \in DOMAIN Digits : Digits[i] = c) - 1

\* the character of a digit
DigitChar(d) == Digits[d + 1]

\* all sequences over S of length 0..n
SeqsUpTo(S, n) == UNION {[1..k -> S] : k \in 0..n}

VARIABLES
    \* ---- getJobExitCode ----
    ePc,          \* "idle" | "qstat" | "qacct" | "returned" | "raised"
    eJobID,       \* the sgeJobID argument of the call in progress (characters)
    eQstat,       \* what `qstat -j` answered in this call, or None
    eQacct,       \* what `qacct -j` answered in this call, or None
    eQstatCalls,  \* invocations of qstat during this call
    eQacctCalls,  \* invocations of qacct during this call
    eResult,      \* the value returned, once ePc = "returned"
    eRaised,      \* the exception that left the call, once ePc = "raised"
    \* ---- getRunningJobIDs and the threads it shares the tracked jobs with ----
    rRunningJobs, \* self.runningJobs: the jobs this process tracks
    rBatchJobIDs, \* self.batchJobIDs: job -> <<batch identifier, task>>
    rLock,        \* self.runningJobsLock: "free", or the thread holding it
    gPc,          \* the enumerating thread: "idle" | "lock" | "copy" | "qstat"
                  \*   | "inqstat" | "done" | "raised"
    gCurrent,     \* its local currentjobs: batch identifier (string) -> job
    gVisited,     \* the jobs its comprehension has iterated over
    gTimes,       \* the map it returns: job -> elapsed wall time
    gQstatCalls,  \* how many times this call of getRunningJobIDs has run qstat
    uPc,          \* the updating thread: "idle" | "txn"
    uSteps,       \* updates made in the transaction in progress
    hCommitted,   \* history: the tracked set as the last completed update left it
    hAtStart,     \* history: the tracked set when the copy began
    hAtEnd,       \* history: the tracked set when the copy ended
    hCommittedAtEnd, \* history: hCommitted when the copy ended
    \* ---- the provisioner's autoscaling tables ----
    aShapeTable,  \* self._shape_to_instance_type: Unset, or Shape -> instance type
    aSpotBids,    \* self._spotBidsMap: Unset, or set of instance types -> bid
    aArgs,        \* history: the nodeTypes of the latest setAutoscaledNodeTypes
    aOutcome,     \* how that call ended: "none" (no call yet) | "ok" | "raised"
    aDropped,     \* history: that call removed an entry that each table held before it
    aRet,         \* what the latest call of the three methods returned
    \* ---- leader-worker authentication and bootstrap documents ----
    pClusterType, \* self.clusterType: "mesos" | "kubernetes"
    pAuth,        \* self._leaderWorkerAuthentication: None, a key, or a dict
    pLimit,       \* what self._get_user_data_limit() answers
    fSshSuccess,  \* the leader has the file /root/.sshSuccess
    fIdRsaPub,    \* the leader's /root/.ssh/id_rsa.pub: None, or its words
    fWorkerIni,   \* the leader's /etc/kubernetes/worker.ini: None, or its
                  \*   DEFAULT section
    hAuthOp,      \* history: the latest of establish and forget that completed
    hEstablish,   \* how the latest establish ended: "none" (no call yet) | "ok"
                  \*   | the exception it raised
    hKeygens,     \* how many times ssh-keygen has made a key pair on the leader
    hKeys,        \* history: for the establish calls that returned a key, the
                  \*   key, whether the call generated it, and the latest of
                  \*   establish and forget before the call
    dCall,        \* the arguments of the latest _getIgnitionUserData, with the
                  \*   authentication and hAuthOp as they were then; or None
    dConfig,      \* the InstanceConfiguration that call built, or None
    dReturn,      \* what that call returned; None when it raised
    dWrites,      \* the files that call wrote to cloud storage
    \* ---- Shape objects ----
    sA,           \* a Shape
    sB,           \* another Shape, constructed separately
    sTable,       \* a dict keyed by Shapes: Shape -> instance type
    sRet,         \* the latest operation on the Shapes and what it returned
    \* ---- AbstractProvisioner.__init__ ----
    cSupported,   \* what supportedClusterTypes() of the concrete class answers
    cArgs,        \* the arguments of the construction, or None before it
    cTrace,       \* the methods of the subclass the constructor has invoked
    cOutcome,     \* "none" (not constructed) | "ready" | the exception raised
    \* ---- an InstanceConfiguration ----
    iConfig,      \* the builder: its files, units and sshPublicKeys
    iCalls,       \* history: the add calls made on it, in order
    iRenders,     \* what toIgnitionConfig returned, for each call of it since
                  \*   the latest add call
    \* ---- prepareSubmission ----
    qArgsEnv,     \* os.environ: TOIL_GRIDENGINE_ARGS, None when not set
    qPeEnv,       \* os.environ: TOIL_GRIDENGINE_PE, None when not set
    qManualMemArgs, \* self.boss.config.manualMemArgs
    qBossEnv,     \* self.boss.environment: a list of <<name, value>>
    qCall,        \* the arguments of the latest prepareSubmission, or None
    qReturn,      \* the command line it returned, or None
    qRaised,       \* "none", or the exception it raised
    \* ---- a kubernetes setup unit on a node ----
    bUnit,        \* the setup unit that the boot agent runs on the node
    bPc,          \* "inactive" | "running" (its script runs) | "failed"
                  \*   | "exited" (its script ended with status 0) | "skipped"
    bStep,        \* the step of the script that runs next, 0 outside a run
    bMarker,      \* the marker file of the unit exists
    bStarts,      \* how many times the boot agent has started the unit
    bSwallowed,   \* in this run a command failed and the script went on
    hMarkerRun,   \* history: "none", or how the run that made the marker
                  \*   went: "clean" | "unclean" (a command of it had failed)
    hRunsWithMarker, \* history: runs of the script begun with the marker there
    \* ---- the adapter method a caller uses, submitJob and killJob ----
    kMethod,      \* the method of the adapter that the caller calls: "none",
                  \*   "submitJob", "killJob", "getRunningJobIDs", "getJobExitCode"
    kCalls,       \* how many times the latest submitJob or killJob has run
                  \*   qsub and qdel
    kOutcome,     \* what the command of that call did, or None
    kResult,      \* what that call returned, or None
    kRaised,       \* "none", or the exception that left that call
    \* --- SystemTest.testAtomicityOfNonEmptyDirectoryRenames ---
    tNumTasks,    \* numTasks of the round; 0 when no round has begun
    tPc,          \* for each task, the call it makes next: "mkdtemp", "open",
                  \* "stat", "rename", "unlink", "rmdir", "done"
    tDirs,        \* the directories under parent: 0 is child, t is the
                  \* temporary directory of task t
    tFiles,       \* the grandChild files: <<directory, inode>>
    tGrandChildId, \* for each task, the inode it read with os.stat (0: not yet)
    tErrno,       \* for each task, the errno of its rename ("none": no error)
    tResult,      \* for each task, what it returned (Unset: not yet)
    tVerdict,      \* the assertions of the round: "open", "pass", "fail"
    \* --- setAutoscaledNodeTypes in one thread, getAutoscaledInstanceShapes
    \*     in another, statement by statement ---
    wShapeTable,  \* self._shape_to_instance_type, or Unset
    wSpotBids,    \* self._spotBidsMap, or Unset
    wArgs,        \* nodeTypes of the running (or the latest) call
    wPc,          \* the statement the writer is at: "idle", "bids" (line 351),
                  \*   "table" (356), "nodeType" (358-362), "instance" (363-366)
    wK,           \* the node type the writer is at
    wJ,           \* the instance type name of it the writer is at
    wBefore,      \* history: the shape table when that call began
    wOutcome,     \* "none", or how the latest finished call ended: "ok" | "raised"
    vPc,          \* the reader: "idle", "copy" (hasattr answered True),
                  \*   "returned"
    vRet          \* None, or the latest value a read returned since the
                  \*   writer's call began, with the writer's place at the
                  \*   time: [val, pc, k, j]

exitVars == <<ePc, eJobID, eQstat, eQacct, eQstatCalls, eQacctCalls, eResult, eRaised>>

runVars == <<rRunningJobs, rBatchJobIDs, rLock, gPc, gCurrent, gVisited, gTimes, gQstatCalls,
             uPc, uSteps, hCommitted, hAtStart, hAtEnd, hCommittedAtEnd>>

autoVars == <<aShapeTable, aSpotBids, aArgs, aOutcome, aDropped, aRet>>

provVars == <<pClusterType, pAuth, pLimit, fSshSuccess, fIdRsaPub, fWorkerIni, hAuthOp,
              hEstablish, hKeygens, hKeys,
              dCall, dConfig, dReturn, dWrites>>

shapeVars == <<sA, sB, sTable, sRet>>

ctorVars == <<cSupported, cArgs, cTrace, cOutcome>>

configVars == <<iConfig, iCalls, iRenders>>

qsubVars == <<qArgsEnv, qPeEnv, qManualMemArgs, qBossEnv, qCall, qReturn, qRaised>>

bootVars == <<bUnit, bPc, bStep, bMarker, bStarts, bSwallowed, hMarkerRun, hRunsWithMarker>>

adapterVars == <<kMethod, kCalls, kOutcome, kResult, kRaised>>

renameVars == <<tNumTasks, tPc, tDirs, tFiles, tGrandChildId, tErrno, tResult, tVerdict>>

sharedVars == <<wShapeTable, wSpotBids, wArgs, wPc, wK, wJ, wBefore, wOutcome, vPc, vRet>>

vars == <<exitVars, runVars, autoVars, provVars,
         shapeVars, ctorVars, configVars, qsubVars, bootVars, adapterVars, renameVars, sharedVars>>

\* what the operations of one subsystem leave alone
notExit == <<runVars, autoVars, provVars, shapeVars, ctorVars, configVars, qsubVars, bootVars, adapterVars, renameVars, sharedVars>>
notRun == <<exitVars, autoVars, provVars, shapeVars, ctorVars, configVars, qsubVars, bootVars, adapterVars, renameVars, sharedVars>>
notAuto == <<exitVars, runVars, provVars, shapeVars, ctorVars, configVars, qsubVars, bootVars, adapterVars, renameVars, sharedVars>>
notProv == <<exitVars, runVars, autoVars, shapeVars, ctorVars, configVars, qsubVars, bootVars, adapterVars, renameVars, sharedVars>>
notShape == <<exitVars, runVars, autoVars, provVars, ctorVars, configVars, qsubVars, bootVars, adapterVars, renameVars, sharedVars>>
notCtor == <<exitVars, runVars, autoVars, provVars, shapeVars, configVars, qsubVars, bootVars, adapterVars, renameVars, sharedVars>>
notConfig == <<exitVars, runVars, autoVars, provVars, shapeVars, ctorVars, qsubVars, bootVars, adapterVars, renameVars, sharedVars>>
notQsub == <<exitVars, runVars, autoVars, provVars, shapeVars, ctorVars, configVars, bootVars, adapterVars, renameVars, sharedVars>>
notBoot == <<exitVars, runVars, autoVars, provVars, shapeVars, ctorVars, configVars, qsubVars, adapterVars, renameVars, sharedVars>>
notAdapter == <<exitVars, runVars, autoVars, provVars, shapeVars, ctorVars, configVars, qsubVars, bootVars, renameVars, sharedVars>>
notRename == <<exitVars, runVars, autoVars, provVars, shapeVars, ctorVars, configVars, qsubVars, bootVars, adapterVars, sharedVars>>
notShared == <<exitVars, runVars, autoVars, provVars, shapeVars, ctorVars, configVars, qsubVars, bootVars, adapterVars, renameVars>>

(***************************************************************************)
(* The state of each subsystem before any of its operations has run.       *)
(***************************************************************************)
\* setAutoscaledNodeTypes has not been called: neither attribute exists.
AutoIdle ==
    /\ aShapeTable = Unset
    /\ aSpotBids = Unset
    /\ aArgs = <<>>
    /\ aOutcome = "none"
    /\ aDropped = FALSE
    /\ aRet = [op |-> "none", val |-> None]

\* A mesos provisioner just constructed, on a leader without a key pair.
ProvIdle ==
    /\ pClusterType = "mesos"
    /\ pAuth = None
    /\ pLimit = 0
    /\ fSshSuccess = FALSE
    /\ fIdRsaPub = None
    /\ fWorkerIni = None
    /\ hAuthOp = "none"
    /\ hEstablish = "none"
    /\ hKeygens = 0
    /\ hKeys = {}
    /\ dCall = None
    /\ dConfig = None
    /\ dReturn = None
    /\ dWrites = <<>>

\* Two Shapes of an instance without dimensions, an empty dict, no operation.
ShapeIdle ==
    /\ sA = [wallTime |-> 0, memory |-> 0, cores |-> 0, disk |-> 0, preemptible |-> FALSE]
    /\ sB = sA
    /\ sTable = <<>>
    /\ sRet = [op |-> "none"]

\* No provisioner is being constructed.
CtorIdle ==
    /\ cSupported = {}
    /\ cArgs = None
    /\ cTrace = <<>>
    /\ cOutcome = "none"

\* An InstanceConfiguration just made: nothing added, nothing rendered.
ConfigIdle ==
    /\ iConfig = [files |-> <<>>, units |-> <<>>, sshPublicKeys |-> <<>>]
    /\ iCalls = <<>>
    /\ iRenders = <<>>

\* Nothing set in the environment, no submission prepared.
QsubIdle ==
    /\ qArgsEnv = None
    /\ qPeEnv = None
    /\ qManualMemArgs = FALSE
    /\ qBossEnv = <<>>
    /\ qCall = None
    /\ qReturn = None
    /\ qRaised = "none"

\* A node on which no setup unit has been started.
BootIdle ==
    /\ bUnit = "install-kubernetes.service"
    /\ bPc = "inactive"
    /\ bStep = 0
    /\ bMarker = FALSE
    /\ bStarts = 0
    /\ bSwallowed = FALSE
    /\ hMarkerRun = "none"
    /\ hRunsWithMarker = 0

\* No caller, no submitJob or killJob made.
AdapterIdle ==
    /\ kMethod = "none"
    /\ kCalls = [qsub |-> 0, qdel |-> 0]
    /\ kOutcome = None
    /\ kResult = None
    /\ kRaised = "none"

\* The rename test has not begun.
RenameIdle ==
    /\ tNumTasks = 0
    /\ tPc = <<>>
    /\ tDirs = {}
    /\ tFiles = {}
    /\ tGrandChildId = <<>>
    /\ tErrno = <<>>
    /\ tResult = <<>>
    /\ tVerdict = "open"

\* No thread has called the provisioner.
SharedIdle ==
    /\ wShapeTable = Unset
    /\ wSpotBids = Unset
    /\ wArgs = <<>>
    /\ wPc = "idle"
    /\ wK = 1
    /\ wJ = 1
    /\ wBefore = Unset
    /\ wOutcome = "none"
    /\ vPc = "idle"
    /\ vRet = None

\* getJobExitCode has not been called.
ExitIdle ==
    /\ ePc = "idle"
    /\ eJobID = <<>>
    /\ eQstat = None
    /\ eQacct = None
    /\ eQstatCalls = 0
    /\ eQacctCalls = 0
    /\ eResult = None
    /\ eRaised = None

\* No job is tracked, the lock is free, no thread is inside getRunningJobIDs.
RunIdle ==
    /\ rRunningJobs = {}
    /\ rBatchJobIDs = <<>>
    /\ rLock = "free"
    /\ gPc = "idle"
    /\ gCurrent = <<>>
    /\ gVisited = {}
    /\ gTimes = <<>>
    /\ gQstatCalls = 0
    /\ uPc = "idle"
    /\ uSteps = 0
    /\ hCommitted = {}
    /\ hAtStart = {}
    /\ hAtEnd = {}
    /\ hCommittedAtEnd = {}

(***************************************************************************)
(* GridEngineThread.getJobExitCode                                         *)
(***************************************************************************)
\* The job identifiers handed to getJobExitCode: strings of characters.  An
\* identifier made by getBatchSystemID() carries ".<task>" when the job has a
\* task.
SgeJobIDs == { <<"7">>, <<"4", "2">>, <<"7", ".", "1">> }

\* '.' in sgeJobID
HasDot(s) == \E i \in DOMAIN s : s[i] = "."

\* sgeJobID.split('.', 1): the text before the first '.', and the text after it
SplitJobTask(s) ==
    IF HasDot(s)
    THEN LET i == CHOOSE k \in DOMAIN s : s[k] = "." /\ \A m \in 1..(k-1) : s[m] # "."
         IN  [job |-> SubSeq(s, 1, i - 1), task |-> Str_(SubSeq(s, i + 1, Len(s)))]
    ELSE [job |-> s, task |-> None]

\* The error signature of the live queue for a job it does not know.
JobNotFoundSignature == "Following jobs do not exist"

\* What the tools write to stderr, as the list of the message fragments in it.
StderrTexts ==
    { <<"Following jobs do not exist">>,
      <<"error: commlib error">>,
      <<"error: commlib error", "Following jobs do not exist">>,
      <<>> }

\* "<text>" in ex.stderr
InStderr(text, stderr) == \E i \in DOMAIN stderr : stderr[i] = text

\* call_command(["qstat", "-j", job]): it returns, or it fails with
\* CalledProcessErrorStderr carrying the tool's stderr.
QstatOutcomes ==
    {[ok |-> TRUE, stderr |-> <<>>]} \cup {[ok |-> FALSE, stderr |-> e] : e \in StderrTexts}

\* A line of qacct's output: its first word, and the decimal digits of its
\* second word (line.split()[1]).
QacctLines ==
    { [key |-> k, val |-> v] :
        k \in {"jobnumber", "failed", "exit_status"},
        v \in { <<"0">>, <<"1">>, <<"1", "0", "0">> } }

QacctOutcomes ==
    {[ok |-> TRUE, stdout |-> out, stderr |-> <<>>] : out \in SeqsUpTo(QacctLines, MaxLines)}
        \cup {[ok |-> FALSE, stdout |-> <<>>, stderr |-> e] : e \in StderrTexts}

\* int("<digits>")
RECURSIVE ParseInt(_)
ParseInt(digits) ==
    IF digits = <<>> THEN 0
    ELSE 10 * ParseInt(SubSeq(digits, 1, Len(digits) - 1)) + DigitValue(digits[Len(digits)])

\* line.startswith(prefix), for the names of qacct's fields: none of them is a
\* proper extension of "failed" or of "exit_status".
StartsWith(line, prefix) == line.key = prefix

\* The mutant of QstatDisposition that queries accounting after a successful
\* live-queue query as well.
QstatDispositionNoReturn(out) ==
    IF out.ok THEN "fallthrough"
    ELSE IF ~InStderr(JobNotFoundSignature, out.stderr) THEN "raise"
    ELSE "fallthrough"

\* The mutant of QstatDisposition that takes every failure of the live queue
\* for "job not found" (a bare except).
QstatDispositionSwallow(out) ==
    IF out.ok THEN "return" ELSE "fallthrough"

\* The try/except around the live-queue query: return None when the query
\* succeeds, re-raise unless stderr carries the signature, else fall through to
\* the accounting query.
QstatDisposition(out) ==
    IF out.ok THEN "return"
    ELSE IF ~InStderr(JobNotFoundSignature, out.stderr) THEN "raise"
    ELSE "fallthrough"

\* The mutant of ExitCodeFromAccounting that takes any `failed` line for a
\* failure, whatever its value.
RECURSIVE ExitCodeAnyFailed(_)
ExitCodeAnyFailed(lines) ==
    IF lines = <<>> THEN None
    ELSE LET line == Head(lines) IN
         IF StartsWith(line, "failed") THEN Int_(1)
         ELSE IF StartsWith(line, "exit_status") THEN Int_(ParseInt(line.val))
         ELSE ExitCodeAnyFailed(Tail(lines))

\* The mutant of ExitCodeFromAccounting that looks for an `exit_status` line
\* in the whole output before it looks at the `failed` lines.
ExitCodeExitStatusFirst(lines) ==
    LET S == {i \in DOMAIN lines : StartsWith(lines[i], "exit_status")}
        F == {i \in DOMAIN lines : StartsWith(lines[i], "failed") /\ ParseInt(lines[i].val) = 1}
    IN  IF S # {} THEN Int_(ParseInt(lines[CHOOSE i \in S : \A j \in S : i <= j].val))
        ELSE IF F # {} THEN Int_(1)
        ELSE None

\* The loop over the lines of qacct's output.
RECURSIVE ExitCodeFromAccounting(_)
ExitCodeFromAccounting(lines) ==
    IF lines = <<>> THEN None
    ELSE LET line == Head(lines) IN
         IF StartsWith(line, "failed") /\ ParseInt(line.val) = 1 THEN Int_(1)
         ELSE IF StartsWith(line, "exit_status") THEN Int_(ParseInt(line.val))
         ELSE ExitCodeFromAccounting(Tail(lines))

\* getJobExitCode is entered: the identifier is split, and a task is refused.
GetJobExitCode(sgeJobID) ==
    /\ ePc \in {"idle", "returned", "raised"}
    /\ eJobID' = sgeJobID
    /\ eQstat' = None
    /\ eQacct' = None
    /\ eQstatCalls' = 0
    /\ eQacctCalls' = 0
    /\ eResult' = None
    /\ IF SplitJobTask(sgeJobID).task # None
       THEN /\ ePc' = "raised"
            /\ eRaised' = [type |-> "AssertionError", stderr |-> <<>>]
       ELSE /\ ePc' = "qstat"
            /\ eRaised' = None
    /\ UNCHANGED notExit

\* call_command(["qstat", "-j", str(job)]) and the handling of its outcome.
QstatStep ==
    /\ ePc = "qstat"
    /\ \E out \in QstatOutcomes :
        /\ eQstat' = out
        /\ eQstatCalls' = eQstatCalls + 1
        /\ LET d == QstatDisposition(out) IN
           /\ ePc' = CASE d = "return" -> "returned"
                       [] d = "raise"  -> "raised"
                       [] OTHER        -> "qacct"
           /\ eRaised' = IF d = "raise"
                         THEN [type |-> "CalledProcessErrorStderr", stderr |-> out.stderr]
                         ELSE None
    /\ eResult' = None
    /\ UNCHANGED <<eJobID, eQacct, eQacctCalls>>
    /\ UNCHANGED notExit

\* call_command(["qacct", "-j", str(job)]) and the scan of its output.
QacctStep ==
    /\ ePc = "qacct"
    /\ \E out \in QacctOutcomes :
        /\ eQacct' = out
        /\ eQacctCalls' = eQacctCalls + 1
        /\ IF out.ok
           THEN /\ ePc' = "returned"
                /\ eResult' = ExitCodeFromAccounting(out.stdout)
                /\ eRaised' = None
           ELSE /\ ePc' = "raised"
                /\ eResult' = None
                /\ eRaised' = [type |-> "CalledProcessErrorStderr", stderr |-> out.stderr]
    /\ UNCHANGED <<eJobID, eQstat, eQstatCalls>>
    /\ UNCHANGED notExit

InitExit == ExitIdle /\ RunIdle /\ AutoIdle /\ ProvIdle /\ ShapeIdle /\ CtorIdle /\ ConfigIdle /\ QsubIdle /\ BootIdle /\ AdapterIdle /\ RenameIdle /\ SharedIdle

NextExit ==
    \/ \E id \in SgeJobIDs : GetJobExitCode(id)
    \/ QstatStep
    \/ QacctStep

SpecExit == InitExit /\ [][NextExit]_vars

(***************************************************************************)
(* Claims about getJobExitCode, checked under SpecExit.                    *)
(***************************************************************************)
\* The live queue answered in this call, and knew the job.
QstatSucceeded == eQstat # None /\ eQstat.ok

\* The live queue failed with the "job not found" signature.
QstatJobNotFound ==
    eQstat # None /\ ~eQstat.ok /\ InStderr(JobNotFoundSignature, eQstat.stderr)

\* The live queue failed with another error.
QstatOtherError ==
    eQstat # None /\ ~eQstat.ok /\ ~InStderr(JobNotFoundSignature, eQstat.stderr)

\* C1: whenever the live-queue query succeeds, getJobExitCode returns None and
\* the accounting command is not invoked during that call.
C1_QstatSuccessReturnsNone ==
    QstatSucceeded =>
        /\ ePc = "returned"
        /\ eResult = None
        /\ eQacctCalls = 0
        /\ eQacct = None

C1_Witness == QstatSucceeded /\ ePc = "returned" /\ eQstatCalls = 1

\* The lines of an accounting output that decide the result by themselves.
DecisiveLines(lines) ==
    { i \in DOMAIN lines :
        \/ lines[i].key = "failed" /\ ParseInt(lines[i].val) = 1
        \/ lines[i].key = "exit_status" }

\* C2: when the live queue fails with the "job not found" signature, the
\* accounting output decides the result: None when it has neither a `failed 1`
\* line nor an `exit_status` line, and otherwise 1 for a `failed 1` line and N
\* for an `exit_status N` line.
C2_AccountingDecides ==
    (ePc = "returned" /\ QstatJobNotFound) =>
        /\ eQacct # None /\ eQacct.ok /\ eQacctCalls = 1
        /\ LET lines == eQacct.stdout
               D == DecisiveLines(lines)
           IN  IF D = {} THEN eResult = None
               ELSE LET i == CHOOSE k \in D : \A m \in D : k <= m IN
                    IF lines[i].key = "failed"
                    THEN eResult = Int_(1)
                    ELSE eResult = Int_(ParseInt(lines[i].val))

C2_Witness ==
    /\ ePc = "returned" /\ QstatJobNotFound
    /\ eQacct.stdout = << [key |-> "failed", val |-> <<"1", "0", "0">>],
                          [key |-> "exit_status", val |-> <<"0">>] >>
    /\ eResult = Int_(0)

\* C3: when the live-queue query fails with an error other than "job not
\* found", that error leaves getJobExitCode: no value is returned and the
\* accounting command is not invoked.
C3_OtherErrorPropagates ==
    QstatOtherError =>
        /\ ePc = "raised"
        /\ eRaised = [type |-> "CalledProcessErrorStderr", stderr |-> eQstat.stderr]
        /\ eResult = None
        /\ eQacctCalls = 0
        /\ eQacct = None

C3_Witness ==
    QstatOtherError /\ ePc = "raised" /\ eQstat.stderr = <<"error: commlib error">>

(***************************************************************************)
(* GridEngineThread.getRunningJobIDs                                       *)
(***************************************************************************)
Jobs == 1..MaxJobs

\* The batch identifier qsub answered for a job (submitJob's int(output)).
BatchIDOf(j) == 8 + j

\* str(n), for n >= 0
RECURSIVE StrOfInt(_)
StrOfInt(n) ==
    IF n < 10 THEN <<DigitChar(n)>>
    ELSE Append(StrOfInt(n \div 10), DigitChar(n % 10))

\* A line of qstat's listing after currline.strip().split(): items[0], items[4]
\* and the start time that items[5:7] spell.  The header line has "job-ID" first.
QstatListingLines ==
    { [id |-> i, state |-> st, start |-> t] :
        i \in {StrOfInt(BatchIDOf(j)) : j \in Jobs} \cup { <<"j", "o", "b", "-", "I", "D">> },
        st \in {"r", "qw"},
        t \in {1, 2} }

\* time.time() when a line is read
ClockValues == {3, 4}

\* The mutant of InWithBlock in which the queue listing is called inside the
\* with block.
InWithBlockWide(pc) == pc \in {"copy", "qstat", "inqstat"}

\* The positions of getRunningJobIDs that lie inside `with self.runningJobsLock`.
InWithBlock(pc) == pc = "copy"

\* The lock after the thread moves from one position to another: leaving the
\* with block releases it.
LockAfter(from, to) ==
    IF InWithBlock(from) /\ ~InWithBlock(to) THEN "free" ELSE rLock

\* getRunningJobIDs is entered: times = {}.
GetRunningJobIDs ==
    /\ gPc \in {"idle", "done", "raised"}
    /\ gPc' = "lock"
    /\ gTimes' = <<>>
    /\ gQstatCalls' = 0
    /\ gCurrent' = <<>>
    /\ gVisited' = {}
    /\ UNCHANGED <<rRunningJobs, rBatchJobIDs, rLock, uPc, uSteps,
                   hCommitted, hAtStart, hAtEnd, hCommittedAtEnd>>
    /\ UNCHANGED notRun

\* The mutant of AcquireLock that does not wait for the lock to be free.
AcquireLockNoWait ==
    /\ gPc = "lock"
    /\ rLock' = "g"
    /\ gPc' = "copy"
    /\ hAtStart' = rRunningJobs
    /\ UNCHANGED <<rRunningJobs, rBatchJobIDs, gCurrent, gVisited, gTimes, gQstatCalls, uPc, uSteps,
                   hCommitted, hAtEnd, hCommittedAtEnd>>
    /\ UNCHANGED notRun

\* `with self.runningJobsLock:` is entered once the lock is free.
AcquireLock ==
    /\ gPc = "lock"
    /\ rLock = "free"
    /\ rLock' = "g"
    /\ gPc' = "copy"
    /\ hAtStart' = rRunningJobs
    /\ UNCHANGED <<rRunningJobs, rBatchJobIDs, gCurrent, gVisited, gTimes, gQstatCalls, uPc, uSteps,
                   hCommitted, hAtEnd, hCommittedAtEnd>>
    /\ UNCHANGED notRun

\* One turn of the comprehension {str(self.batchJobIDs[x][0]): x for x in
\* self.runningJobs}; a job without a batch identifier is a KeyError, which
\* leaves the with block.
CopyStep ==
    /\ gPc = "copy"
    /\ \E x \in rRunningJobs \ gVisited :
        IF x \in DOMAIN rBatchJobIDs
        THEN /\ gCurrent' = [k \in DOMAIN gCurrent \cup {StrOfInt(rBatchJobIDs[x][1])} |->
                                IF k = StrOfInt(rBatchJobIDs[x][1]) THEN x ELSE gCurrent[k]]
             /\ gVisited' = gVisited \cup {x}
             /\ UNCHANGED <<gPc, rLock>>
        ELSE /\ gPc' = "raised"
             /\ rLock' = LockAfter("copy", "raised")
             /\ UNCHANGED <<gCurrent, gVisited>>
    /\ UNCHANGED <<rRunningJobs, rBatchJobIDs, gTimes, gQstatCalls, uPc, uSteps,
                   hCommitted, hAtStart, hAtEnd, hCommittedAtEnd>>
    /\ UNCHANGED notRun

\* The comprehension has iterated over every tracked job: the with block ends.
CopyDone ==
    /\ gPc = "copy"
    /\ rRunningJobs \ gVisited = {}
    /\ gPc' = "qstat"
    /\ rLock' = LockAfter("copy", "qstat")
    /\ hAtEnd' = rRunningJobs
    /\ hCommittedAtEnd' = hCommitted
    /\ UNCHANGED <<rRunningJobs, rBatchJobIDs, gCurrent, gVisited, gTimes, gQstatCalls, uPc, uSteps,
                   hCommitted, hAtStart>>
    /\ UNCHANGED notRun

\* call_command(["qstat"]) starts: the thread waits for the subprocess.
QstatListingStart ==
    /\ gPc = "qstat"
    /\ gPc' = "inqstat"
    /\ gQstatCalls' = gQstatCalls + 1
    /\ rLock' = LockAfter("qstat", "inqstat")
    /\ UNCHANGED <<rRunningJobs, rBatchJobIDs, gCurrent, gVisited, gTimes, uPc, uSteps,
                   hCommitted, hAtStart, hAtEnd, hCommittedAtEnd>>
    /\ UNCHANGED notRun

\* The mutant of TimesFromListing that does not look at the state of a line.
RECURSIVE TimesFromListingAnyState(_, _, _, _)
TimesFromListingAnyState(lines, currentjobs, now, times) ==
    IF lines = <<>> THEN times
    ELSE LET items == Head(lines) IN
         IF items.id \in DOMAIN currentjobs
         THEN LET job == currentjobs[items.id] IN
              TimesFromListingAnyState(Tail(lines), currentjobs, now,
                    [j \in DOMAIN times \cup {job} |->
                        IF j = job THEN now - items.start ELSE times[j]])
         ELSE TimesFromListingAnyState(Tail(lines), currentjobs, now, times)

\* The loop over the lines of the listing: a line whose first item is a key of
\* currentjobs and whose state is 'r' sets the elapsed time of that job.
RECURSIVE TimesFromListing(_, _, _, _)
TimesFromListing(lines, currentjobs, now, times) ==
    IF lines = <<>> THEN times
    ELSE LET items == Head(lines) IN
         IF items.id \in DOMAIN currentjobs /\ items.state = "r"
         THEN LET job == currentjobs[items.id] IN
              TimesFromListing(Tail(lines), currentjobs, now,
                    [j \in DOMAIN times \cup {job} |->
                        IF j = job THEN now - items.start ELSE times[j]])
         ELSE TimesFromListing(Tail(lines), currentjobs, now, times)

\* call_command(["qstat"]) ends: it failed, or its listing is read.
QstatListingReturn ==
    /\ gPc = "inqstat"
    /\ \/ /\ gPc' = "raised"
          /\ UNCHANGED gTimes
       \/ \E listing \in SeqsUpTo(QstatListingLines, MaxListing), now \in ClockValues :
            /\ gPc' = "done"
            /\ gTimes' = TimesFromListing(listing, gCurrent, now, gTimes)
    /\ rLock' = LockAfter("inqstat", "done")
    /\ UNCHANGED <<rRunningJobs, rBatchJobIDs, gCurrent, gVisited, gQstatCalls, uPc, uSteps,
                   hCommitted, hAtStart, hAtEnd, hCommittedAtEnd>>
    /\ UNCHANGED notRun

\* The thread that submits and forgets jobs takes the lock.
UpdaterAcquire ==
    /\ uPc = "idle"
    /\ rLock = "free"
    /\ rLock' = "u"
    /\ uPc' = "txn"
    /\ uSteps' = 0
    /\ UNCHANGED <<rRunningJobs, rBatchJobIDs, gPc, gCurrent, gVisited, gTimes, gQstatCalls,
                   hCommitted, hAtStart, hAtEnd, hCommittedAtEnd>>
    /\ UNCHANGED notRun

\* Holding the lock, it starts to track a submitted job.
UpdaterAdd(j) ==
    /\ uPc = "txn"
    /\ uSteps < MaxTxnSteps
    /\ j \notin rRunningJobs
    /\ rBatchJobIDs' = [k \in DOMAIN rBatchJobIDs \cup {j} |->
                            IF k = j THEN <<BatchIDOf(j), None>> ELSE rBatchJobIDs[k]]
    /\ rRunningJobs' = rRunningJobs \cup {j}
    /\ uSteps' = uSteps + 1
    /\ UNCHANGED <<rLock, gPc, gCurrent, gVisited, gTimes, gQstatCalls, uPc,
                   hCommitted, hAtStart, hAtEnd, hCommittedAtEnd>>
    /\ UNCHANGED notRun

\* Holding the lock, it forgets a job.
UpdaterRemove(j) ==
    /\ uPc = "txn"
    /\ uSteps < MaxTxnSteps
    /\ j \in rRunningJobs
    /\ rRunningJobs' = rRunningJobs \ {j}
    /\ rBatchJobIDs' = [k \in DOMAIN rBatchJobIDs \ {j} |-> rBatchJobIDs[k]]
    /\ uSteps' = uSteps + 1
    /\ UNCHANGED <<rLock, gPc, gCurrent, gVisited, gTimes, gQstatCalls, uPc,
                   hCommitted, hAtStart, hAtEnd, hCommittedAtEnd>>
    /\ UNCHANGED notRun

\* It releases the lock: its update is complete.
UpdaterRelease ==
    /\ uPc = "txn"
    /\ uPc' = "idle"
    /\ rLock' = "free"
    /\ hCommitted' = rRunningJobs
    /\ UNCHANGED <<rRunningJobs, rBatchJobIDs, gPc, gCurrent, gVisited, gTimes, gQstatCalls, uSteps,
                   hAtStart, hAtEnd, hCommittedAtEnd>>
    /\ UNCHANGED notRun

InitRun == ExitIdle /\ RunIdle /\ AutoIdle /\ ProvIdle /\ ShapeIdle /\ CtorIdle /\ ConfigIdle /\ QsubIdle /\ BootIdle /\ AdapterIdle /\ RenameIdle /\ SharedIdle

NextRun ==
    \/ GetRunningJobIDs
    \/ AcquireLock
    \/ CopyStep
    \/ CopyDone
    \/ QstatListingStart
    \/ QstatListingReturn
    \/ UpdaterAcquire
    \/ \E j \in Jobs : UpdaterAdd(j)
    \/ \E j \in Jobs : UpdaterRemove(j)
    \/ UpdaterRelease

SpecRun == InitRun /\ [][NextRun]_vars

(***************************************************************************)
(* Claims about getRunningJobIDs, checked under SpecRun.                   *)
(***************************************************************************)
\* C4: the running-jobs lock is held only while the tracked-job set is copied:
\* it is released before the queue-listing command starts, so the lock is never
\* held by a thread that is waiting on that command.
C4_LockReleasedBeforeQstat ==
    /\ gPc \in {"qstat", "inqstat", "done", "raised", "idle", "lock"} => rLock # "g"
    /\ rLock = "g" => gPc = "copy"

\* The listing command is running while the other thread holds the lock.
C4_Witness == gPc = "inqstat" /\ rLock = "u" /\ uSteps > 0

\* the jobs in a snapshot
SnapshotJobs(currentjobs) == {currentjobs[k] : k \in DOMAIN currentjobs}

\* The copy of this call is complete.
CopyComplete == gPc \in {"qstat", "inqstat", "done"}

\* C5: with another thread adding and removing tracked jobs under the same
\* lock, the snapshot equals the tracked-job set as it stood at one instant: the
\* set did not change during the copy and it is what the last complete update
\* left, never part of an update.
C5_SnapshotAtomic ==
    CopyComplete =>
        /\ SnapshotJobs(gCurrent) = hAtStart
        /\ hAtStart = hAtEnd
        /\ hAtEnd = hCommittedAtEnd
        /\ \A k \in DOMAIN gCurrent : k = StrOfInt(BatchIDOf(gCurrent[k]))

\* A snapshot of two jobs, taken between two updates.
C5_Witness ==
    /\ CopyComplete
    /\ Cardinality(SnapshotJobs(gCurrent)) = 2
    /\ rRunningJobs # hAtEnd

(***************************************************************************)
(* Shape, and AbstractProvisioner.setAutoscaledNodeTypes                   *)
(***************************************************************************)
\* Shape.__init__
Shape(wallTime, memory, cores, disk, preemptible) ==
    [wallTime |-> wallTime, memory |-> memory, cores |-> cores, disk |-> disk,
     preemptible |-> preemptible]

\* The mutant of ShapeEq that leaves the wall time out.
ShapeEqNoWallTime(a, b) ==
    /\ a.memory = b.memory
    /\ a.cores = b.cores
    /\ a.disk = b.disk
    /\ a.preemptible = b.preemptible

\* The mutant of ShapeEq that leaves the preemptible flag out.
ShapeEqNoPreemptible(a, b) ==
    /\ a.wallTime = b.wallTime
    /\ a.memory = b.memory
    /\ a.cores = b.cores
    /\ a.disk = b.disk

\* Shape.__eq__
ShapeEq(a, b) ==
    /\ a.wallTime = b.wallTime
    /\ a.memory = b.memory
    /\ a.cores = b.cores
    /\ a.disk = b.disk
    /\ a.preemptible = b.preemptible

\* Shape.__hash__: the hash of the tuple of the five fields
ShapeHash(a) == <<a.wallTime, a.memory, a.cores, a.disk, a.preemptible>>

\* The instance types of the cloud, with the wall time, memory, cores and disk
\* of each.  "intel" and "amd" have the same dimensions; "bogus" is a name the
\* cloud does not know.
InstanceCatalog ==
    [ intel |-> <<3600, 8, 2, 50>>,
      amd   |-> <<3600, 8, 2, 50>>,
      big   |-> <<3600, 32, 8, 50>> ]

\* getNodeShape(instance_type, preemptible) of the concrete provisioner: the
\* shape of the instance type with the flag it is given, or an error for an
\* unknown instance type.
GetNodeShape(instance_type, preemptible) ==
    IF instance_type \in DOMAIN InstanceCatalog
    THEN LET d == InstanceCatalog[instance_type]
         IN  [ok |-> TRUE, shape |-> Shape(d[1], d[2], d[3], d[4], preemptible)]
    ELSE [ok |-> FALSE, shape |-> None]

\* The mutant of DictSet that keeps the value a key already has (setdefault).
DictSetKeepFirst(d, key, value) ==
    LET hit == {x \in DOMAIN d : ShapeHash(x) = ShapeHash(key) /\ ShapeEq(x, key)}
    IN  IF hit # {}
        THEN d
        ELSE [x \in DOMAIN d \cup {key} |-> IF x = key THEN value ELSE d[x]]

\* d[key] = value on a dict keyed by Shapes: an equal key with the same hash
\* keeps its place and takes the new value, any other key is added.
DictSet(d, key, value) ==
    LET hit == {x \in DOMAIN d : ShapeHash(x) = ShapeHash(key) /\ ShapeEq(x, key)}
    IN  IF hit # {}
        THEN [x \in DOMAIN d |-> IF x \in hit THEN value ELSE d[x]]
        ELSE [x \in DOMAIN d \cup {key} |-> IF x = key THEN value ELSE d[x]]

\* d[key] = value on a dict keyed by frozensets of names
DictSetPlain(d, key, value) ==
    [x \in DOMAIN d \cup {key} |-> IF x = key THEN value ELSE d[x]]

\* A node type as setAutoscaledNodeTypes reads it: node_type[0], a set of
\* instance type names, given with the order in which Python iterates over it
\* (any order may occur), and node_type[1], the spot bid or None.
NodeTypeClasses ==
    { [order |-> <<"intel">>, bid |-> None],
      [order |-> <<"amd">>, bid |-> None],
      [order |-> <<"intel", "amd">>, bid |-> None],
      [order |-> <<"amd", "intel">>, bid |-> None],
      [order |-> <<"intel">>, bid |-> Float_(0)],
      [order |-> <<"intel">>, bid |-> Float_(42)],
      [order |-> <<"big">>, bid |-> Float_(42)],
      [order |-> <<"intel", "bogus">>, bid |-> Float_(42)] }

NodeTypeLists == SeqsUpTo(NodeTypeClasses, MaxNodeTypes)

\* The mutant of IsPreemptible that tests the bid for truth: a bid of 0 counts
\* as no bid.
IsPreemptibleTruthy(node_type) == node_type.bid # None /\ node_type.bid.v # 0

\* preemptible = node_type[1] is not None
IsPreemptible(node_type) == node_type.bid # None

\* The inner loop: for instance_type_name in node_type[0].  st is the pair of
\* tables so far; an error of getNodeShape ends the call.
RECURSIVE RecordInstanceTypes(_, _, _)
RecordInstanceTypes(names, preemptible, st) ==
    IF names = <<>> \/ st.raised THEN st
    ELSE LET got == GetNodeShape(Head(names), preemptible) IN
         IF ~got.ok
         THEN [st EXCEPT !.raised = TRUE]
         ELSE RecordInstanceTypes(Tail(names), preemptible,
                  [st EXCEPT !.table = DictSet(st.table, got.shape, Head(names))])

\* The outer loop: for node_type in nodeTypes.
RECURSIVE RecordNodeTypes(_, _)
RecordNodeTypes(nodeTypes, st) ==
    IF nodeTypes = <<>> \/ st.raised THEN st
    ELSE LET node_type == Head(nodeTypes)
             preemptible == IsPreemptible(node_type)
             withBid == IF preemptible
                        THEN [st EXCEPT !.bids =
                                DictSetPlain(st.bids, Range(node_type.order), node_type.bid)]
                        ELSE st
         IN  RecordNodeTypes(Tail(nodeTypes),
                             RecordInstanceTypes(node_type.order, preemptible, withBid))

\* The mutant of FreshTables that goes on from the tables of the previous call.
KeptTables(bids, table) ==
    [bids  |-> IF bids = Unset THEN <<>> ELSE bids.v,
     table |-> IF table = Unset THEN <<>> ELSE table.v,
     raised |-> FALSE]

\* self._spotBidsMap = {} and self._shape_to_instance_type = {}, whatever the
\* two attributes held.
FreshTables(bids, table) == [bids |-> <<>>, table |-> <<>>, raised |-> FALSE]

\* the pairs <<key, value>> a table holds
Entries(t) == IF t = Unset THEN {} ELSE {<<x, t.v[x]>> : x \in DOMAIN t.v}

\* The mutant of SetAutoscaledNodeTypes that puts the tables back as they were
\* when getNodeShape fails.
SetAutoscaledNodeTypesRestoring(nodeTypes) ==
    LET st == RecordNodeTypes(nodeTypes, FreshTables(aSpotBids, aShapeTable)) IN
    /\ aSpotBids' = IF st.raised THEN aSpotBids ELSE Dict_(st.bids)
    /\ aShapeTable' = IF st.raised THEN aShapeTable ELSE Dict_(st.table)
    /\ aArgs' = nodeTypes
    /\ aOutcome' = IF st.raised THEN "raised" ELSE "ok"
    /\ aDropped' = FALSE
    /\ aRet' = [op |-> "set", val |-> None]
    /\ UNCHANGED notAuto

\* setAutoscaledNodeTypes(nodeTypes)
SetAutoscaledNodeTypes(nodeTypes) ==
    LET st == RecordNodeTypes(nodeTypes, FreshTables(aSpotBids, aShapeTable)) IN
    /\ aSpotBids' = Dict_(st.bids)
    /\ aShapeTable' = Dict_(st.table)
    /\ aArgs' = nodeTypes
    /\ aOutcome' = IF st.raised THEN "raised" ELSE "ok"
    /\ aDropped' = /\ Entries(aShapeTable) \ Entries(Dict_(st.table)) # {}
                   /\ Entries(aSpotBids) \ Entries(Dict_(st.bids)) # {}
    /\ aRet' = [op |-> "set", val |-> None]
    /\ UNCHANGED notAuto

\* The mutant of GetAutoscaledInstanceShapes that creates the table when it is
\* missing.
GetAutoscaledInstanceShapesCreating ==
    /\ aRet' = [op |-> "get",
                val |-> IF aShapeTable # Unset THEN aShapeTable ELSE Dict_(<<>>)]
    /\ aShapeTable' = IF aShapeTable # Unset THEN aShapeTable ELSE Dict_(<<>>)
    /\ UNCHANGED <<aSpotBids, aArgs, aOutcome, aDropped>>
    /\ UNCHANGED notAuto

\* What getAutoscaledInstanceShapes returns: a copy of the table when the
\* attribute exists, else an empty dict.
AutoscaledInstanceShapes ==
    IF aShapeTable # Unset THEN Dict_(aShapeTable.v) ELSE Dict_(<<>>)

\* getAutoscaledInstanceShapes()
GetAutoscaledInstanceShapes ==
    /\ aRet' = [op |-> "get", val |-> AutoscaledInstanceShapes]
    /\ UNCHANGED <<aShapeTable, aSpotBids, aArgs, aOutcome, aDropped>>
    /\ UNCHANGED notAuto

\* hasAutoscaledNodeTypes(): len(self.getAutoscaledInstanceShapes()) > 0
HasAutoscaledNodeTypes ==
    /\ aRet' = [op |-> "has",
                val |-> [tag |-> "bool",
                         v |-> Cardinality(DOMAIN AutoscaledInstanceShapes.v) > 0]]
    /\ UNCHANGED <<aShapeTable, aSpotBids, aArgs, aOutcome, aDropped>>
    /\ UNCHANGED notAuto

InitAuto == ExitIdle /\ RunIdle /\ AutoIdle /\ ProvIdle /\ ShapeIdle /\ CtorIdle /\ ConfigIdle /\ QsubIdle /\ BootIdle /\ AdapterIdle /\ RenameIdle /\ SharedIdle

\* The arguments that addManagedNodes is called with.
ManagedNodeTypes == {{"intel"}, {"intel", "amd"}}
ManagedNodeCounts == {0, 2}
ManagedSpotBids == {None, Float_(42)}

\* The mutant of AddManagedNodes that accepts the group and returns None.
AddManagedNodesAccepting(nodeTypes, minNodes, maxNodes, preemptible, spotBid) ==
    /\ aRet' = [op |-> "addManagedNodes", val |-> None, raised |-> "none"]
    /\ UNCHANGED <<aShapeTable, aSpotBids, aArgs, aOutcome, aDropped>>
    /\ UNCHANGED notAuto

\* addManagedNodes(nodeTypes, minNodes, maxNodes, preemptible, spotBid) as the
\* abstract provisioner defines it
AddManagedNodes(nodeTypes, minNodes, maxNodes, preemptible, spotBid) ==
    /\ aRet' = [op |-> "addManagedNodes", val |-> None,
                raised |-> "ManagedNodesNotSupportedException"]
    /\ UNCHANGED <<aShapeTable, aSpotBids, aArgs, aOutcome, aDropped>>
    /\ UNCHANGED notAuto

NextAuto ==
    \/ \E nodeTypes \in NodeTypeLists : SetAutoscaledNodeTypes(nodeTypes)
    \/ GetAutoscaledInstanceShapes
    \/ HasAutoscaledNodeTypes
    \/ \E nodeTypes \in ManagedNodeTypes, minNodes \in ManagedNodeCounts,
          maxNodes \in ManagedNodeCounts, preemptible \in BOOLEAN,
          spotBid \in ManagedSpotBids :
            AddManagedNodes(nodeTypes, minNodes, maxNodes, preemptible, spotBid)

SpecAuto == InitAuto /\ [][NextAuto]_vars

(***************************************************************************)
(* Claims about setAutoscaledNodeTypes and the accessors, under SpecAuto.  *)
(***************************************************************************)
\* The shape the cloud's catalog gives an instance type of a node type.
ShapeIn(class, name) ==
    LET d == InstanceCatalog[name]
    IN  [wallTime |-> d[1], memory |-> d[2], cores |-> d[3], disk |-> d[4],
         preemptible |-> (class.bid # None)]

\* The entries that a list of node types can put in the shape table.
DerivedEntries(nodeTypes) ==
    UNION { {<<ShapeIn(c, n), n>> : n \in Range(c.order) \cap DOMAIN InstanceCatalog} :
            c \in Range(nodeTypes) }

\* The entries that a list of node types can put in the spot-bid map.
DerivedBids(nodeTypes) ==
    { <<Range(c.order), c.bid>> : c \in {x \in Range(nodeTypes) : x.bid # None} }

\* C7: every call of setAutoscaledNodeTypes replaces both tables: after a call
\* with specs S2 they hold only entries derived from S2, and no entry that came
\* only from an earlier call survives.
C7_FullReplacement ==
    aOutcome # "none" =>
        /\ aShapeTable # Unset /\ aSpotBids # Unset
        /\ Entries(aShapeTable) \subseteq DerivedEntries(aArgs)
        /\ Entries(aSpotBids) \subseteq DerivedBids(aArgs)

\* A call has removed entries of an earlier call from both tables, and has put
\* its own in them.
C7_Witness ==
    /\ aOutcome = "ok" /\ aDropped
    /\ Entries(aShapeTable) # {} /\ Entries(aSpotBids) # {}

\* The instance types in the order in which the two loops reach them, each
\* with its node type.
RECURSIVE ProcessingOrder(_)
ProcessingOrder(nodeTypes) ==
    IF nodeTypes = <<>> THEN <<>>
    ELSE [i \in DOMAIN Head(nodeTypes).order |->
            [class |-> Head(nodeTypes), name |-> Head(nodeTypes).order[i]]]
         \o ProcessingOrder(Tail(nodeTypes))

\* C8: when two instance types of the configured node types have the same
\* shape, the table keeps one entry for that shape, and it names the instance
\* type processed later; the earlier one has no entry for it.
C8_LastWriteWins ==
    aOutcome = "ok" =>
        LET P == ProcessingOrder(aArgs)
            t == aShapeTable.v
            shapeAt(i) == ShapeIn(P[i].class, P[i].name)
        IN  \A i \in DOMAIN P :
              LET same == {k \in DOMAIN P : shapeAt(k) = shapeAt(i)}
                  last == CHOOSE k \in same : \A m \in same : m <= k
                  keys == {x \in DOMAIN t :
                              /\ x.wallTime = shapeAt(i).wallTime
                              /\ x.memory = shapeAt(i).memory
                              /\ x.cores = shapeAt(i).cores
                              /\ x.disk = shapeAt(i).disk
                              /\ x.preemptible = shapeAt(i).preemptible}
              IN  /\ Cardinality(keys) = 1
                  /\ \A x \in keys : t[x] = P[last].name

\* "intel" and "amd" have one shape: given in this order in two node types,
\* only "amd" is in the table.
C8_Witness ==
    /\ aOutcome = "ok"
    /\ aArgs = << [order |-> <<"intel">>, bid |-> None], [order |-> <<"amd">>, bid |-> None] >>
    /\ {e[2] : e \in Entries(aShapeTable)} = {"amd"}

\* The shapes in the table carry preemptible = true exactly when they come
\* from a node type with a bid.
ShapesCarryBidFlag ==
    /\ \A c \in Range(aArgs) : \A n \in Range(c.order) :
          \E e \in Entries(aShapeTable) :
              /\ e[1].preemptible = (c.bid # None)
              /\ <<e[1].wallTime, e[1].memory, e[1].cores, e[1].disk>> = InstanceCatalog[n]
    /\ \A e \in Entries(aShapeTable) :
          \E c \in Range(aArgs) :
              /\ e[2] \in Range(c.order)
              /\ e[1].preemptible = (c.bid # None)

\* C9, as claimed: after setAutoscaledNodeTypes the spot-bid map has one key per
\* configured node type with a bid (its set of names), mapped to that node
\* type's bid, and no key for a node type without a bid; the shapes carry
\* preemptible = true exactly when the node type has a bid.
C9_Original ==
    aOutcome = "ok" =>
        /\ \A c \in Range(aArgs) :
              IF c.bid # None
              THEN /\ Range(c.order) \in DOMAIN aSpotBids.v
                   /\ aSpotBids.v[Range(c.order)] = c.bid
              ELSE Range(c.order) \notin DOMAIN aSpotBids.v
        /\ DOMAIN aSpotBids.v \subseteq {Range(c.order) : c \in Range(aArgs)}
        /\ ShapesCarryBidFlag

\* C9, amended: the keys of the spot-bid map are the sets of names of the node
\* types with a bid, and nothing else; each key is mapped to the bid of the
\* last node type with that set of names and a bid (a node type without a bid
\* adds no key, though its set of names is a key when another node type with
\* the same names has a bid); the shapes carry preemptible = true exactly when
\* they come from a node type with a bid.
C9_SpotBidsOfBidClasses ==
    aOutcome = "ok" =>
        /\ DOMAIN aSpotBids.v = {Range(aArgs[i].order) : i \in {k \in DOMAIN aArgs : aArgs[k].bid # None}}
        /\ \A key \in DOMAIN aSpotBids.v :
              LET with == {k \in DOMAIN aArgs :
                              aArgs[k].bid # None /\ Range(aArgs[k].order) = key}
                  last == CHOOSE k \in with : \A m \in with : m <= k
              IN  aSpotBids.v[key] = aArgs[last].bid
        /\ ShapesCarryBidFlag

\* A node type with a bid of 0 and one without a bid: one key, mapped to 0.
C9_Witness ==
    /\ aOutcome = "ok"
    /\ aArgs = << [order |-> <<"intel">>, bid |-> Float_(0)],
                  [order |-> <<"amd">>, bid |-> None] >>
    /\ Entries(aSpotBids) = { <<{"intel"}, Float_(0)>> }

\* C10: before the first setAutoscaledNodeTypes call getAutoscaledInstanceShapes
\* returns an empty mapping and hasAutoscaledNodeTypes returns false; in every
\* state hasAutoscaledNodeTypes is true exactly when the table is non-empty;
\* and neither accessor changes the state of the provisioner.
C10_AccessorsReadOnly ==
    /\ [](/\ (aOutcome = "none" /\ aRet.op = "get") => aRet.val = Dict_(<<>>)
          /\ (aOutcome = "none" /\ aRet.op = "has") => aRet.val.v = FALSE
          /\ aRet.op = "has" => (aRet.val.v <=> Entries(aShapeTable) # {})
          /\ aRet.op = "get" => Entries(aRet.val) = Entries(aShapeTable))
    /\ [][aRet'.op \in {"get", "has"} =>
            UNCHANGED <<aShapeTable, aSpotBids, aArgs, aOutcome>>]_vars

\* Both accessors have answered before any setAutoscaledNodeTypes call.
C10_Witness ==
    /\ aOutcome = "none" /\ aShapeTable = Unset
    /\ aRet = [op |-> "has", val |-> [tag |-> "bool", v |-> FALSE]]

(***************************************************************************)
(* Leader-worker authentication                                            *)
(***************************************************************************)
ClusterTypes == {"mesos", "kubernetes"}

\* The start of the encoding of every RSA public key.
RSAPrefix == "AAAAB3NzaC1yc2E"

\* Key data, as the chunk it starts with and the rest.
RSAKeys == { <<"AAAAB3NzaC1yc2E", "k1">>, <<"AAAAB3NzaC1yc2E", "k2">> }
OtherKeys == { <<"AAAAC3NzaC1lZDI1NTE5", "k9">> }

\* keyData.startswith(prefix)
KeyStartsWith(keyData, prefix) == Len(keyData) > 0 /\ keyData[1] = prefix

\* A public key file: the key type, the key data and a comment, separated by
\* single spaces.
PublicKeyFile(keyType, keyData) == Str_(<<keyType, keyData, "root@leader">>)

\* The DEFAULT section of worker.ini once the leader has written all of it, and
\* after the first of its lines only.
JoinInfoFull ==
    [JOIN_TOKEN |-> "token", JOIN_CERT_HASH |-> "sha256:hash", JOIN_ENDPOINT |-> "leader:6443"]
JoinInfoPartial == [JOIN_TOKEN |-> "token"]

\* What the provisioner and its leader can be like when the first call comes:
\* either backend, a user-data limit, a leader with or without a key pair made
\* earlier (the marker file with it), with or without worker.ini.
ProvInit ==
    /\ pClusterType \in ClusterTypes
    /\ pAuth = None
    /\ pLimit \in {5, 11, 16}
    /\ \/ fSshSuccess = FALSE /\ fIdRsaPub = None
       \/ fSshSuccess = TRUE  /\ fIdRsaPub \in {PublicKeyFile("ssh-rsa", k) : k \in RSAKeys}
       \/ fSshSuccess = TRUE  /\ fIdRsaPub \in {PublicKeyFile("ssh-ed25519", k) : k \in OtherKeys}
    /\ fWorkerIni \in {None, Dict_(JoinInfoFull), Dict_(JoinInfoPartial)}
    /\ hAuthOp = "none"
    /\ hEstablish = "none"
    /\ hKeygens = 0
    /\ hKeys = {}
    /\ dCall = None
    /\ dConfig = None
    /\ dReturn = None
    /\ dWrites = <<>>

\* The mutant of RunKeySetup whose command does not test the marker.
RunKeySetupUnguarded(keygen) ==
    IF keygen = None
    THEN [ok |-> FALSE, marker |-> fSshSuccess, pub |-> fIdRsaPub, generated |-> FALSE]
    ELSE [ok |-> TRUE, marker |-> TRUE, pub |-> PublicKeyFile("ssh-rsa", keygen.v),
          generated |-> TRUE]

\* The shell command of _setSSH on the leader: unless /root/.sshSuccess is
\* there, ssh-keygen makes a key pair (or fails, which ends the command under
\* set -e) and the marker is made.  keygen is what ssh-keygen does if it runs:
\* None when it fails, else Str_ of the key it makes.
RunKeySetup(keygen) ==
    IF fSshSuccess
    THEN [ok |-> TRUE, marker |-> TRUE, pub |-> fIdRsaPub, generated |-> FALSE]
    ELSE IF keygen = None
         THEN [ok |-> FALSE, marker |-> FALSE, pub |-> fIdRsaPub, generated |-> FALSE]
         ELSE [ok |-> TRUE, marker |-> TRUE, pub |-> PublicKeyFile("ssh-rsa", keygen.v),
               generated |-> TRUE]

\* The mutant of ReadPublicKey that does not assert.
ReadPublicKeyUnchecked(pub) ==
    IF pub = None THEN [ok |-> FALSE, key |-> None]
    ELSE [ok |-> TRUE, key |-> Str_(pub.v[2])]

\* _setSSH after the command: read id_rsa.pub, keep the second word, and
\* assert that it is an RSA key.
ReadPublicKey(pub) ==
    IF pub = None THEN [ok |-> FALSE, key |-> None]
    ELSE LET leaderPublicKey == pub.v[2] IN
         IF KeyStartsWith(leaderPublicKey, RSAPrefix)
         THEN [ok |-> TRUE, key |-> Str_(leaderPublicKey)]
         ELSE [ok |-> FALSE, key |-> None]

\* _getKubernetesJoiningInfo: dict(config['DEFAULT']) of worker.ini, an error
\* when the file is not there.
ReadJoiningInfo ==
    IF fWorkerIni = None THEN [ok |-> FALSE, info |-> None]
    ELSE [ok |-> TRUE, info |-> Dict_(fWorkerIni.v)]

\* The mutant of AuthBackend that takes each backend for the other.
AuthBackendSwapped(clusterType) ==
    IF clusterType = "mesos" THEN "join"
    ELSE IF clusterType = "kubernetes" THEN "ssh"
    ELSE "none"

\* The branch of _setLeaderWorkerAuthentication for a cluster type.
AuthBackend(clusterType) ==
    IF clusterType = "mesos" THEN "ssh"
    ELSE IF clusterType = "kubernetes" THEN "join"
    ELSE "none"

\* _setLeaderWorkerAuthentication on a mesos cluster.
EstablishMesos ==
    /\ AuthBackend(pClusterType) = "ssh"
    /\ \E keygen \in {None} \cup {Str_(k) : k \in RSAKeys} :
         LET run == RunKeySetup(keygen)
             got == ReadPublicKey(run.pub)
         IN  /\ fSshSuccess' = run.marker
             /\ fIdRsaPub' = run.pub
             /\ hKeygens' = IF run.generated THEN hKeygens + 1 ELSE hKeygens
             /\ IF run.ok /\ got.ok
                THEN /\ pAuth' = got.key /\ hAuthOp' = "establish" /\ hEstablish' = "ok"
                     /\ hKeys' = hKeys \cup {[key |-> got.key, fresh |-> run.generated,
                                               after |-> hAuthOp]}
                ELSE /\ UNCHANGED <<pAuth, hAuthOp, hKeys>>
                     /\ hEstablish' = IF run.ok THEN "AssertionError"
                                      ELSE "CalledProcessError"
    /\ UNCHANGED <<pClusterType, pLimit, fWorkerIni, dCall, dConfig, dReturn, dWrites>>
    /\ UNCHANGED notProv

\* _setLeaderWorkerAuthentication on a kubernetes cluster.
EstablishKubernetes ==
    /\ AuthBackend(pClusterType) = "join"
    /\ LET got == ReadJoiningInfo
       IN  IF got.ok
           THEN pAuth' = got.info /\ hAuthOp' = "establish" /\ hEstablish' = "ok"
           ELSE UNCHANGED <<pAuth, hAuthOp>> /\ hEstablish' = "FileNotFoundError"
    /\ UNCHANGED <<pClusterType, pLimit, fSshSuccess, fIdRsaPub, fWorkerIni,
                   hKeygens, hKeys, dCall, dConfig, dReturn, dWrites>>
    /\ UNCHANGED notProv

\* The mutant of ClearLeaderWorkerAuthentication that keeps what is stored.
ClearLeaderWorkerAuthenticationKeeping ==
    /\ pAuth' = pAuth
    /\ hAuthOp' = "forget"
    /\ UNCHANGED <<pClusterType, pLimit, fSshSuccess, fIdRsaPub, fWorkerIni, hEstablish,
                   hKeygens, hKeys,
                   dCall, dConfig, dReturn, dWrites>>
    /\ UNCHANGED notProv

\* _clearLeaderWorkerAuthentication
ClearLeaderWorkerAuthentication ==
    /\ pAuth' = None
    /\ hAuthOp' = "forget"
    /\ UNCHANGED <<pClusterType, pLimit, fSshSuccess, fIdRsaPub, fWorkerIni, hEstablish,
                   hKeygens, hKeys,
                   dCall, dConfig, dReturn, dWrites>>
    /\ UNCHANGED notProv

(***************************************************************************)
(* InstanceConfiguration                                                   *)
(***************************************************************************)
\* InstanceConfiguration.__init__
EmptyConfig == [files |-> <<>>, units |-> <<>>, sshPublicKeys |-> <<>>]

\* int(mode, 8)
RECURSIVE OctalToInt(_)
OctalToInt(digits) ==
    IF digits = <<>> THEN 0
    ELSE 8 * OctalToInt(SubSeq(digits, 1, Len(digits) - 1)) + DigitValue(digits[Len(digits)])

\* the default mode of addFile, and the other mode the provisioner gives
Mode0755 == <<"0", "7", "5", "5">>
Mode0644 == <<"0", "6", "4", "4">>

\* The mutant of AddFile that skips a file the builder already has.
AddFileDeduplicating(config, path, mode, contents) ==
    LET entry == [path |-> path, filesystem |-> "root", mode |-> OctalToInt(mode),
                  contents |-> [source |-> <<"data:,", contents>>]]
    IN  IF \E i \in DOMAIN config.files : config.files[i] = entry
        THEN config
        ELSE [config EXCEPT !.files = Append(@, entry)]

\* addFile(path, mode=mode, contents=contents), on filesystem 'root' and
\* without append: the mode becomes a number, the contents a data URI.
AddFile(config, path, mode, contents) ==
    [config EXCEPT !.files = Append(@,
        [path |-> path, filesystem |-> "root", mode |-> OctalToInt(mode),
         contents |-> [source |-> <<"data:,", contents>>]])]

\* addUnit(name, contents=contents), enabled
AddUnit(config, name, contents) ==
    [config EXCEPT !.units = Append(@, [name |-> name, enabled |-> TRUE, contents |-> contents])]

\* The mutant of AddSSHRSAKey that stores the bare key data.
AddSSHRSAKeyBare(config, keyData) ==
    [config EXCEPT !.sshPublicKeys = Append(@, keyData)]

\* addSSHRSAKey(keyData)
AddSSHRSAKey(config, keyData) ==
    [config EXCEPT !.sshPublicKeys = Append(@, <<"ssh-rsa ">> \o keyData)]

\* toIgnitionConfig(): the document, as the JSON value that json.dumps writes.
ToIgnitionConfig(config) ==
    LET base == [ignition |-> [version |-> "2.2.0"],
                 storage |-> [files |-> config.files],
                 systemd |-> [units |-> config.units]]
    IN  IF Len(config.sshPublicKeys) > 0
        THEN [k \in DOMAIN base \cup {"passwd"} |->
                 IF k = "passwd"
                 THEN [users |-> << [name |-> "core",
                                     sshAuthorizedKeys |-> config.sshPublicKeys] >>]
                 ELSE base[k]]
        ELSE base

\* len(user_data), counted in entries: one for every file, every unit and every
\* authorized key of the document.
DocLen(doc) ==
    Len(doc.storage.files) + Len(doc.systemd.units)
        + (IF "passwd" \in DOMAIN doc THEN Len(doc.passwd.users[1].sshAuthorizedKeys) ELSE 0)

(***************************************************************************)
(* AbstractProvisioner._getIgnitionUserData                                *)
(***************************************************************************)
Roles == {"leader", "worker"}
KeyPaths == {None, Str_(<<"/root/key">>)}
Architectures == {"amd64", "arm64"}

\* a text of the source with the values formatted into it
Text(template, values) == [template |-> template, values |-> values]

\* SETUP_STATE_DIR of getKubernetesValues
SetupStateDir == "/etc/toil/kubernetes"

\* The mutant of ConditionPathExists in which the join unit has no condition.
ConditionPathExistsNoJoin(contents) ==
    IF contents.template = "install-kubernetes.service"
    THEN SetupStateDir \o "/install-kubernetes.done"
    ELSE IF contents.template = "create-kubernetes-cluster.service"
    THEN SetupStateDir \o "/create-kubernetes-cluster.done"
    ELSE "none"

\* The file that the line ConditionPathExists=!<file> of a unit text names,
\* "none" for a unit text without such a line.
ConditionPathExists(contents) ==
    IF contents.template = "install-kubernetes.service"
    THEN SetupStateDir \o "/install-kubernetes.done"
    ELSE IF contents.template = "create-kubernetes-cluster.service"
    THEN SetupStateDir \o "/create-kubernetes-cluster.done"
    ELSE IF contents.template = "join-kubernetes-cluster.service"
    THEN SetupStateDir \o "/join-kubernetes-cluster.done"
    ELSE "none"

\* The script that the ExecStart line of a unit text runs with bash, "none"
\* for a unit text that runs something else.
ExecStartScript(contents) ==
    IF contents.template = "volume-mounting.service" THEN "/home/core/volumes.sh"
    ELSE IF contents.template = "install-kubernetes.service"
    THEN "/home/core/install-kubernetes.sh"
    ELSE IF contents.template = "create-kubernetes-cluster.service"
    THEN "/home/core/create-kubernetes-cluster.sh"
    ELSE IF contents.template = "join-kubernetes-cluster.service"
    THEN "/home/core/join-kubernetes-cluster.sh"
    ELSE IF contents.template = "cleanup-nodes.service" THEN "/home/core/cleanup-nodes.sh"
    ELSE "none"

\* The FLAG_FILE that a script text, run under set -e, touches as its last
\* command, "none" for a script text that touches none.
FlagFile(contents) ==
    IF contents.template = "install-kubernetes.sh"
    THEN SetupStateDir \o "/install-kubernetes.done"
    ELSE IF contents.template = "create-kubernetes-cluster.sh"
    THEN SetupStateDir \o "/create-kubernetes-cluster.done"
    ELSE IF contents.template = "join-kubernetes-cluster.sh"
    THEN SetupStateDir \o "/join-kubernetes-cluster.done"
    ELSE "none"

\* The [Unit] and [Install] relations with no entry.
NoRelations == [after |-> {}, before |-> {}, requires |-> {}, requiredBy |-> {}]

\* The mutant of UnitRelations in which the cluster bootstrap unit declares
\* nothing about the Toil leader.
UnitRelationsNoLeader(contents) ==
    IF contents.template = "create-kubernetes-cluster.service"
    THEN [NoRelations EXCEPT !.after = {"install-kubernetes.service", "docker.service"}]
    ELSE IF contents.template = "cleanup-nodes.service"
    THEN [NoRelations EXCEPT !.after = {"create-kubernetes-cluster.service"},
                             !.requires = {"create-kubernetes-cluster.service"}]
    ELSE IF contents.template = "toil.service"
    THEN [NoRelations EXCEPT !.after = {"docker.service", "create-kubernetes-cluster.service"}]
    ELSE IF contents.template = "install-kubernetes.service"
    THEN [NoRelations EXCEPT !.after = {"network-online.target"},
                             !.before = {"kubelet.service"},
                             !.requiredBy = {"kubelet.service"}]
    ELSE NoRelations

\* The After=, Before= and Requires= lines of the [Unit] section of a unit
\* text and the RequiredBy= lines of its [Install] section.
UnitRelations(contents) ==
    IF contents.template = "volume-mounting.service"
    THEN [NoRelations EXCEPT !.before = {"docker.service"}]
    ELSE IF contents.template = "node-exporter.service"
    THEN [NoRelations EXCEPT !.after = {"docker.service"}]
    ELSE IF contents.template = "toil.service"
    THEN [NoRelations EXCEPT !.after = {"docker.service", "create-kubernetes-cluster.service"}]
    ELSE IF contents.template = "kubelet.service"
    THEN [NoRelations EXCEPT !.after = {"network-online.target"}]
    ELSE IF contents.template = "install-kubernetes.service"
    THEN [NoRelations EXCEPT !.after = {"network-online.target"},
                             !.before = {"kubelet.service"},
                             !.requiredBy = {"kubelet.service"}]
    ELSE IF contents.template = "create-kubernetes-cluster.service"
    THEN [NoRelations EXCEPT !.after = {"install-kubernetes.service", "docker.service"},
                             !.before = {"toil-leader.service"},
                             !.requiredBy = {"toil-leader.service"}]
    ELSE IF contents.template = "cleanup-nodes.service"
    THEN [NoRelations EXCEPT !.after = {"create-kubernetes-cluster.service"},
                             !.requires = {"create-kubernetes-cluster.service"}]
    ELSE IF contents.template = "join-kubernetes-cluster.service"
    THEN [NoRelations EXCEPT !.after = {"install-kubernetes.service", "docker.service"},
                             !.requires = {"install-kubernetes.service"}]
    ELSE NoRelations

\* getBaseInstanceConfiguration()
BaseInstanceConfiguration ==
    LET c1 == AddFile(EmptyConfig, "/etc/coreos/update.conf", Mode0644,
                      Text("update.conf", <<>>))
        c2 == AddFile(c1, "/home/core/volumes.sh", Mode0755, Text("volumes.sh", <<>>))
        c3 == AddUnit(c2, "volume-mounting.service", Text("volume-mounting.service", <<>>))
    IN  AddUnit(c3, "node-exporter.service", Text("node-exporter.service", <<>>))

\* addKubernetesServices(config, architecture)
AddKubernetesServices(config, architecture) ==
    LET c1 == AddUnit(config, "kubelet.service", Text("kubelet.service", <<>>))
        c2 == AddFile(c1, "/etc/systemd/system/kubelet.service.d/10-kubeadm.conf", Mode0644,
                      Text("10-kubeadm.conf", <<>>))
        c3 == AddFile(c2, "/home/core/install-kubernetes.sh", Mode0755,
                      Text("install-kubernetes.sh", [ARCHITECTURE |-> architecture]))
    IN  AddUnit(c3, "install-kubernetes.service", Text("install-kubernetes.service", <<>>))

\* addKubernetesLeader(config)
AddKubernetesLeader(config) ==
    LET c1 == AddFile(config, "/home/core/scheduler-config.yml", Mode0644,
                      Text("scheduler-config.yml", <<>>))
        c2 == AddFile(c1, "/home/core/kubernetes-leader.yml", Mode0644,
                      Text("kubernetes-leader.yml", <<>>))
        c3 == AddFile(c2, "/home/core/create-kubernetes-cluster.sh", Mode0755,
                      Text("create-kubernetes-cluster.sh", <<>>))
        c4 == AddUnit(c3, "create-kubernetes-cluster.service",
                      Text("create-kubernetes-cluster.service", <<>>))
        c5 == AddFile(c4, "/home/core/cleanup-nodes.sh", Mode0755,
                      Text("cleanup-nodes.sh", <<>>))
    IN  AddUnit(c5, "cleanup-nodes.service", Text("cleanup-nodes.service", <<>>))

\* str(b)
BoolStr(b) == IF b THEN "True" ELSE "False"

\* The entry point of the Toil container and its arguments, or an error:
\* add_toil_service before the unit is added.
ToilEntryPoint(clusterType, role, keyPath, preemptible) ==
    LET base ==
          IF clusterType = "mesos"
          THEN IF role = "leader"
               THEN [ok |-> TRUE, entryPoint |-> "mesos-master",
                     args |-> <<"--log_dir=/var/lib/mesos ", "--registry=in_memory --cluster=">>]
               ELSE IF role = "worker"
               THEN [ok |-> TRUE, entryPoint |-> "mesos-agent",
                     args |-> <<"--log_dir=/var/lib/mesos ", "--work_dir=/var/lib/mesos --master=",
                                "--attributes=preemptible:", BoolStr(preemptible)>>]
               ELSE [ok |-> FALSE, entryPoint |-> "", args |-> <<>>]
          ELSE IF clusterType = "kubernetes" /\ role = "leader"
               THEN [ok |-> TRUE, entryPoint |-> "sleep", args |-> <<"infinity">>]
               ELSE [ok |-> FALSE, entryPoint |-> "", args |-> <<>>]
    IN  IF base.ok /\ keyPath # None
        THEN [ok |-> TRUE, entryPoint |-> "waitForKey.sh", args |-> keyPath.v \o <<" ">> \o base.args]
        ELSE base

\* add_toil_service(config, role, keyPath, preemptible)
AddToilService(config, clusterType, role, keyPath, preemptible) ==
    LET e == ToilEntryPoint(clusterType, role, keyPath, preemptible) IN
    IF ~e.ok THEN [ok |-> FALSE, config |-> config]
    ELSE [ok |-> TRUE,
          config |-> AddUnit(config, "toil-" \o role \o ".service",
                             Text("toil.service",
                                  [role |-> role, entryPoint |-> e.entryPoint,
                                   entryPointArgs |-> e.args]))]

\* The names a text of addKubernetesWorker formats in from authVars.
JoinKeys == {"JOIN_TOKEN", "JOIN_CERT_HASH", "JOIN_ENDPOINT"}

\* addKubernetesWorker(config, authVars, preemptible): str.format fails on a
\* name that authVars lacks.
AddKubernetesWorker(config, authVars, preemptible) ==
    IF ~(JoinKeys \subseteq DOMAIN authVars) THEN [ok |-> FALSE, config |-> config]
    ELSE LET c1 == AddFile(config, "/home/core/kubernetes-worker.yml", Mode0644,
                      Text("kubernetes-worker.yml",
                           [JOIN_ENDPOINT |-> authVars.JOIN_ENDPOINT,
                            JOIN_TOKEN |-> authVars.JOIN_TOKEN,
                            JOIN_CERT_HASH |-> authVars.JOIN_CERT_HASH,
                            WORKER_LABEL_SPEC |->
                                IF preemptible
                                THEN "node-labels: \"eks.amazonaws.com/capacityType=SPOT\""
                                ELSE ""]))
             c2 == AddFile(c1, "/home/core/join-kubernetes-cluster.sh", Mode0755,
                      Text("join-kubernetes-cluster.sh",
                           [JOIN_ENDPOINT |-> authVars.JOIN_ENDPOINT]))
         IN  [ok |-> TRUE,
              config |-> AddUnit(c2, "join-kubernetes-cluster.service",
                                 Text("join-kubernetes-cluster.service", <<>>))]

\* The mutant of ConnectsWorker that forgets the role.
ConnectsWorkerAnyRole(role, auth) == auth # None

\* role == 'worker' and self._leaderWorkerAuthentication is not None
ConnectsWorker(role, auth) == role = "worker" /\ auth # None

\* The mutant of NeedsToilService that gives every node a Toil service.
NeedsToilServiceAlways(clusterType, role) == TRUE

\* self.clusterType == 'mesos' or role == 'leader'
NeedsToilService(clusterType, role) == clusterType = "mesos" \/ role = "leader"

\* The mutant of SetsUpCluster that forgets the role.
SetsUpClusterAnyRole(role) == TRUE

\* role == 'leader', under self.clusterType == 'kubernetes'
SetsUpCluster(role) == role = "leader"

\* The InstanceConfiguration that _getIgnitionUserData builds, or an error.
BuildConfig(clusterType, auth, role, keyPath, preemptible, architecture) ==
    LET c0 == BaseInstanceConfiguration
        c1 == IF clusterType = "kubernetes"
              THEN LET k == AddKubernetesServices(c0, architecture)
                   IN  IF SetsUpCluster(role) THEN AddKubernetesLeader(k) ELSE k
              ELSE c0
        r2 == IF NeedsToilService(clusterType, role)
              THEN AddToilService(c1, clusterType, role, keyPath, preemptible)
              ELSE [ok |-> TRUE, config |-> c1]
    IN  IF ~r2.ok THEN r2
        ELSE IF ConnectsWorker(role, auth)
        THEN IF clusterType = "mesos"
             THEN [ok |-> TRUE, config |-> AddSSHRSAKey(r2.config, auth.v)]
             ELSE IF clusterType = "kubernetes"
             THEN AddKubernetesWorker(r2.config, auth.v, preemptible)
             ELSE r2
        ELSE r2

\* uuid4()
Uuids == {"u1", "u2"}

\* f'configs/{role}/config-{uuid4()}.ign'
CloudKey(role, uuid) == <<"configs/", role, "/config-", uuid, ".ign">>

\* _write_file_to_cloud(key, contents) of the concrete provisioner: the public
\* URL of the file.
WriteFileToCloud(key, contents) == <<"https://storage/">> \o key

\* The document that sends the boot agent to a replacement.
RedirectDocument(src) ==
    [ignition |-> [version |-> "2.2.0", config |-> [replace |-> [source |-> src]]]]

\* The mutant of ExceedsUserDataLimit for which no document is too long.
ExceedsUserDataLimitNever(user_data, user_data_limit) == FALSE

\* The mutant of ExceedsUserDataLimit for which a document exactly at the limit
\* is too long.
ExceedsUserDataLimitAtLimit(user_data, user_data_limit) ==
    DocLen(user_data) >= user_data_limit

\* len(user_data) > user_data_limit
ExceedsUserDataLimit(user_data, user_data_limit) == DocLen(user_data) > user_data_limit

\* _getIgnitionUserData(role, keyPath, preemptible, architecture)
GetIgnitionUserData(role, keyPath, preemptible, architecture) ==
    LET built == BuildConfig(pClusterType, pAuth, role, keyPath, preemptible, architecture)
    IN  /\ dCall' = [role |-> role, keyPath |-> keyPath, preemptible |-> preemptible,
                     architecture |-> architecture, auth |-> pAuth, authOp |-> hAuthOp]
        /\ IF ~built.ok
           THEN /\ dConfig' = None
                /\ dReturn' = None
                /\ dWrites' = <<>>
           ELSE LET user_data == ToIgnitionConfig(built.config) IN
                /\ dConfig' = built.config
                /\ IF ExceedsUserDataLimit(user_data, pLimit)
                   THEN \E uuid \in Uuids :
                          LET key == CloudKey(role, uuid)
                              src == WriteFileToCloud(key, user_data)
                          IN  /\ dWrites' = << [key |-> key, contents |-> user_data,
                                                 url |-> src] >>
                              /\ dReturn' = RedirectDocument(src)
                   ELSE /\ dWrites' = <<>>
                        /\ dReturn' = user_data
        /\ UNCHANGED <<pClusterType, pAuth, pLimit, fSshSuccess, fIdRsaPub, fWorkerIni, hAuthOp,
                       hEstablish, hKeygens, hKeys>>
        /\ UNCHANGED notProv

InitProv == ExitIdle /\ RunIdle /\ AutoIdle /\ ProvInit /\ ShapeIdle /\ CtorIdle /\ ConfigIdle /\ QsubIdle /\ BootIdle /\ AdapterIdle /\ RenameIdle /\ SharedIdle

NextProv ==
    \/ EstablishMesos
    \/ EstablishKubernetes
    \/ ClearLeaderWorkerAuthentication
    \/ \E role \in Roles, keyPath \in KeyPaths, preemptible \in BOOLEAN,
          architecture \in Architectures :
            GetIgnitionUserData(role, keyPath, preemptible, architecture)

SpecProv == InitProv /\ [][NextProv]_vars

(***************************************************************************)
(* Join material in bootstrap documents                                    *)
(***************************************************************************)
\* The full document of the last generation: the one returned inline, or the
\* one uploaded when a redirect was returned.
FullDocument == IF dWrites = <<>> THEN dReturn ELSE dWrites[1].contents

FilePaths(doc) == {doc.storage.files[i].path : i \in DOMAIN doc.storage.files}
UnitNames(doc) == {doc.systemd.units[i].name : i \in DOMAIN doc.systemd.units}

JoinFilePaths == {"/home/core/kubernetes-worker.yml", "/home/core/join-kubernetes-cluster.sh"}
JoinUnitNames == {"join-kubernetes-cluster.service"}

\* Any join material at all: an authorized key, a join file or the join unit.
HasJoinMaterial(doc) ==
    \/ "passwd" \in DOMAIN doc
    \/ FilePaths(doc) \cap JoinFilePaths # {}
    \/ UnitNames(doc) \cap JoinUnitNames # {}

\* The join material of the backend, made from the stored authentication.
EmbedsAuthentication(doc, clusterType, auth) ==
    IF clusterType = "mesos"
    THEN /\ "passwd" \in DOMAIN doc
         /\ doc.passwd.users[1].sshAuthorizedKeys = << <<"ssh-rsa ">> \o auth.v >>
    ELSE /\ "passwd" \notin DOMAIN doc
         /\ JoinFilePaths \subseteq FilePaths(doc)
         /\ JoinUnitNames \subseteq UnitNames(doc)
         /\ \A i \in DOMAIN doc.storage.files :
              LET f == doc.storage.files[i] IN
              /\ f.path = "/home/core/kubernetes-worker.yml" =>
                    /\ f.contents.source[2].values.JOIN_TOKEN = auth.v.JOIN_TOKEN
                    /\ f.contents.source[2].values.JOIN_CERT_HASH = auth.v.JOIN_CERT_HASH
                    /\ f.contents.source[2].values.JOIN_ENDPOINT = auth.v.JOIN_ENDPOINT
              /\ f.path = "/home/core/join-kubernetes-cluster.sh" =>
                    f.contents.source[2].values.JOIN_ENDPOINT = auth.v.JOIN_ENDPOINT

\* C6: whatever establish, forget and generation calls came before, the full
\* document of a generation embeds leader join material exactly when the role
\* is worker and authentication is stored at that moment, and then it is the
\* stored authentication, as an authorized SSH key on mesos and as the join
\* configuration file, the join script and the join unit on kubernetes; a
\* leader document embeds none; a worker document generated after a forget
\* with no establish since embeds none, as nothing is stored then; and a
\* generation fails only for a kubernetes worker whose stored authentication
\* lacks one of the three join values.
C6_JoinMaterialIffAuthenticated ==
    /\ hAuthOp = "forget" => pAuth = None
    /\ dCall # None =>
         /\ dCall.authOp = "forget" => dCall.auth = None
         /\ dConfig = None =>
              /\ pClusterType = "kubernetes" /\ dCall.role = "worker"
              /\ dCall.auth # None
              /\ ~(JoinKeys \subseteq DOMAIN dCall.auth.v)
         /\ dConfig # None =>
              LET doc == FullDocument IN
              /\ doc = ToIgnitionConfig(dConfig)
              /\ HasJoinMaterial(doc) <=> (dCall.role = "worker" /\ dCall.auth # None)
              /\ HasJoinMaterial(doc) => EmbedsAuthentication(doc, pClusterType, dCall.auth)
              /\ dCall.role = "leader" => ~HasJoinMaterial(doc)
              /\ dCall.authOp = "forget" => ~HasJoinMaterial(doc)

\* A worker document was generated while authentication stood established, and
\* it embeds the join material.
C6_Witness ==
    /\ dCall # None /\ dConfig # None
    /\ dCall.role = "worker"
    /\ dCall.authOp = "establish" /\ dCall.auth # None
    /\ HasJoinMaterial(FullDocument)
    /\ EmbedsAuthentication(FullDocument, pClusterType, dCall.auth)

(***************************************************************************)
(* Shape: equality, ordering and hashing                                   *)
(***************************************************************************)
\* The values a numeric field of a Shape takes here.  A field holds the
\* number itself: Python compares and hashes an int and a float by their
\* numeric value.
FieldValues == {1, 2}

\* Every Shape that a call of the constructor makes from these values.
Shapes ==
    {Shape(w, m, c, d, p) : w \in FieldValues, m \in FieldValues, c \in FieldValues,
                            d \in FieldValues, p \in BOOLEAN}

\* x < y on two bools: False < True
BoolLess(x, y) == ~x /\ y

\* The mutant of greater_than that does not look at the preemptible flags.
greater_than_ignoring_preemptible(a, b) ==
    IF a.memory > b.memory THEN TRUE
    ELSE IF a.memory < b.memory THEN FALSE
    ELSE IF a.cores > b.cores THEN TRUE
    ELSE IF a.cores < b.cores THEN FALSE
    ELSE IF a.disk > b.disk THEN TRUE
    ELSE IF a.disk < b.disk THEN FALSE
    ELSE IF a.wallTime > b.wallTime THEN TRUE
    ELSE FALSE

\* The mutant of greater_than that answers True for equal shapes.
greater_than_or_equal(a, b) ==
    IF BoolLess(a.preemptible, b.preemptible) THEN TRUE
    ELSE IF BoolLess(b.preemptible, a.preemptible) THEN FALSE
    ELSE IF a.memory > b.memory THEN TRUE
    ELSE IF a.memory < b.memory THEN FALSE
    ELSE IF a.cores > b.cores THEN TRUE
    ELSE IF a.cores < b.cores THEN FALSE
    ELSE IF a.disk > b.disk THEN TRUE
    ELSE IF a.disk < b.disk THEN FALSE
    ELSE IF a.wallTime > b.wallTime THEN TRUE
    ELSE IF a.wallTime < b.wallTime THEN FALSE
    ELSE TRUE

\* Shape.greater_than, which is Shape.__gt__
greater_than(a, b) ==
    IF BoolLess(a.preemptible, b.preemptible) THEN TRUE
    ELSE IF BoolLess(b.preemptible, a.preemptible) THEN FALSE
    ELSE IF a.memory > b.memory THEN TRUE
    ELSE IF a.memory < b.memory THEN FALSE
    ELSE IF a.cores > b.cores THEN TRUE
    ELSE IF a.cores < b.cores THEN FALSE
    ELSE IF a.disk > b.disk THEN TRUE
    ELSE IF a.disk < b.disk THEN FALSE
    ELSE IF a.wallTime > b.wallTime THEN TRUE
    ELSE IF a.wallTime < b.wallTime THEN FALSE
    ELSE FALSE

\* d[key] on a dict keyed by Shapes: the value of the key that has the hash of
\* key and is equal to it, a KeyError when there is none.
DictGet(d, key) ==
    LET hit == {x \in DOMAIN d : ShapeHash(x) = ShapeHash(key) /\ ShapeEq(x, key)}
    IN  IF hit # {}
        THEN [found |-> TRUE, val |-> d[CHOOSE x \in hit : TRUE]]
        ELSE [found |-> FALSE, val |-> "KeyError"]

\* The two Shape objects at hand.
ShapeNames == {"a", "b"}
ShapeOf(x) == IF x = "a" THEN sA ELSE sB

\* The instance type stored under each of them.
InstanceTypeOf(x) == IF x = "a" THEN "intel" ELSE "amd"

\* x == y
ShapeEquals(x, y) ==
    /\ sRet' = [op |-> "eq", x |-> x, y |-> y, val |-> ShapeEq(ShapeOf(x), ShapeOf(y))]
    /\ UNCHANGED <<sA, sB, sTable>>
    /\ UNCHANGED notShape

\* x > y
ShapeGreater(x, y) ==
    /\ sRet' = [op |-> "gt", x |-> x, y |-> y, val |-> greater_than(ShapeOf(x), ShapeOf(y))]
    /\ UNCHANGED <<sA, sB, sTable>>
    /\ UNCHANGED notShape

\* hash(x)
ShapeHashOf(x) ==
    /\ sRet' = [op |-> "hash", x |-> x, y |-> x, val |-> ShapeHash(ShapeOf(x))]
    /\ UNCHANGED <<sA, sB, sTable>>
    /\ UNCHANGED notShape

\* table[x] = instance type
TableStore(x) ==
    /\ sTable' = DictSet(sTable, ShapeOf(x), InstanceTypeOf(x))
    /\ sRet' = [op |-> "store", x |-> x, y |-> x, val |-> InstanceTypeOf(x)]
    /\ UNCHANGED <<sA, sB>>
    /\ UNCHANGED notShape

\* table[x]
TableLookup(x) ==
    /\ sRet' = [op |-> "lookup", x |-> x, y |-> x, val |-> DictGet(sTable, ShapeOf(x))]
    /\ UNCHANGED <<sA, sB, sTable>>
    /\ UNCHANGED notShape

ShapeInit ==
    /\ sA \in Shapes
    /\ sB \in Shapes
    /\ sTable = <<>>
    /\ sRet = [op |-> "none"]

InitShape == ExitIdle /\ RunIdle /\ AutoIdle /\ ProvIdle /\ ShapeInit /\ CtorIdle /\ ConfigIdle /\ QsubIdle /\ BootIdle /\ AdapterIdle /\ RenameIdle /\ SharedIdle

NextShape ==
    \/ \E x \in ShapeNames, y \in ShapeNames : ShapeEquals(x, y)
    \/ \E x \in ShapeNames, y \in ShapeNames : ShapeGreater(x, y)
    \/ \E x \in ShapeNames : ShapeHashOf(x)
    \/ \E x \in ShapeNames : TableStore(x)
    \/ \E x \in ShapeNames : TableLookup(x)

SpecShape == InitShape /\ [][NextShape]_vars

\* The five fields of two shapes are pairwise equal.
FieldsAgree(a, b) ==
    \A f \in {"wallTime", "memory", "cores", "disk", "preemptible"} : a[f] = b[f]

\* The two shapes differ in the wall time and in nothing else.
DifferOnlyInWallTime(a, b) ==
    /\ a.wallTime # b.wallTime
    /\ \A f \in {"memory", "cores", "disk", "preemptible"} : a[f] = b[f]

\* C11: a == b holds exactly when the five fields are pairwise equal, so ==
\* is reflexive, symmetric and transitive, two shapes that differ only in the
\* wall time are unequal, and every == evaluated returns that.
C11_EqualityIsFieldwise ==
    /\ ShapeEq(sA, sB) <=> FieldsAgree(sA, sB)
    /\ ShapeEq(sA, sA) /\ ShapeEq(sB, sB)
    /\ ShapeEq(sA, sB) <=> ShapeEq(sB, sA)
    /\ \A c \in Shapes : ShapeEq(sA, sB) /\ ShapeEq(sB, c) => ShapeEq(sA, c)
    /\ DifferOnlyInWallTime(sA, sB) => ~ShapeEq(sA, sB)
    /\ sRet.op = "eq" => sRet.val = FieldsAgree(ShapeOf(sRet.x), ShapeOf(sRet.y))

\* a == b was evaluated on two shapes that differ only in the wall time.
C11_Witness ==
    /\ sRet.op = "eq" /\ sRet.x = "a" /\ sRet.y = "b"
    /\ DifferOnlyInWallTime(sA, sB)
    /\ sRet.val = FALSE

\* What the ordering compares, first to last: not preemptible (1) above
\* preemptible (0), then memory, cores, disk and wall time.
Rank(a) == <<IF a.preemptible THEN 0 ELSE 1, a.memory, a.cores, a.disk, a.wallTime>>

\* u is above v in the lexicographic order of tuples of numbers
LexGreater(u, v) ==
    \E i \in DOMAIN u : u[i] > v[i] /\ \A j \in 1..(i - 1) : u[j] = v[j]

\* C12: greater_than(a, b) is true exactly when a is above b in the
\* lexicographic comparison of non-preemptible over preemptible, then memory,
\* cores, disk and wall time; it is false when the five fields agree, and true
\* for a non-preemptible a and a preemptible b whatever the other fields are.
C12_GreaterThanIsLexicographic ==
    /\ \A x \in ShapeNames, y \in ShapeNames :
         LET a == ShapeOf(x)
             b == ShapeOf(y)
         IN  /\ greater_than(a, b) <=> LexGreater(Rank(a), Rank(b))
             /\ FieldsAgree(a, b) => ~greater_than(a, b)
             /\ ~a.preemptible /\ b.preemptible => greater_than(a, b)
    /\ sRet.op = "gt" =>
         sRet.val = LexGreater(Rank(ShapeOf(sRet.x)), Rank(ShapeOf(sRet.y)))

\* a > b was evaluated for a non-preemptible a that is smaller than the
\* preemptible b in memory, cores, disk and wall time, and answered True.
C12_Witness ==
    /\ sRet.op = "gt" /\ sRet.x = "a" /\ sRet.y = "b"
    /\ ~sA.preemptible /\ sB.preemptible
    /\ sA.memory < sB.memory /\ sA.cores < sB.cores
    /\ sA.disk < sB.disk /\ sA.wallTime < sB.wallTime
    /\ sRet.val = TRUE

\* How many of the formulas hold.
HowMany(flags) == Cardinality({i \in DOMAIN flags : flags[i]})

\* C13: the ordering is a strict total order: no shape is greater than itself,
\* a > b and b > c give a > c, and of a > b, b > a and a == b exactly one holds.
C13_StrictTotalOrder ==
    /\ ~greater_than(sA, sA) /\ ~greater_than(sB, sB)
    /\ \A c \in Shapes :
         greater_than(sA, sB) /\ greater_than(sB, c) => greater_than(sA, c)
    /\ HowMany(<<greater_than(sA, sB), greater_than(sB, sA), ShapeEq(sA, sB)>>) = 1
    /\ sRet.op = "gt" /\ sRet.val =>
         /\ ~ShapeEq(ShapeOf(sRet.x), ShapeOf(sRet.y))
         /\ ~greater_than(ShapeOf(sRet.y), ShapeOf(sRet.x))

\* b > a was evaluated on two unequal shapes and answered False, so that a > b
\* is the one of the three that holds.
C13_Witness ==
    /\ sRet.op = "gt" /\ sRet.x = "b" /\ sRet.y = "a"
    /\ sRet.val = FALSE
    /\ ~ShapeEq(sA, sB)
    /\ greater_than(sA, sB)

\* C14: two equal shapes have the same hash, so a shape constructed
\* separately with the same five field values finds the entry that the dict
\* holds under an equal shape, and every lookup made answers so.
C14_EqualShapesHashAlike ==
    /\ ShapeEq(sA, sB) => ShapeHash(sA) = ShapeHash(sB)
    /\ \A k \in DOMAIN sTable : \A x \in ShapeNames :
         ShapeEq(ShapeOf(x), k) =>
            DictGet(sTable, ShapeOf(x)) = [found |-> TRUE, val |-> sTable[k]]
    /\ sRet.op = "lookup" =>
         \A k \in DOMAIN sTable :
            ShapeEq(ShapeOf(sRet.x), k) => sRet.val = [found |-> TRUE, val |-> sTable[k]]

\* The entry stored under a was looked up with b, an equal shape, and found.
C14_Witness ==
    /\ sRet.op = "lookup" /\ sRet.x = "b"
    /\ ShapeEq(sA, sB)
    /\ DOMAIN sTable # {}
    /\ sTable[sA] = "intel"
    /\ sRet.val = [found |-> TRUE, val |-> "intel"]

(***************************************************************************)
(* AbstractProvisioner.__init__                                            *)
(***************************************************************************)
\* The cluster types a caller may ask for, one of them unknown to every
\* provisioner.
AskedClusterTypes == {"mesos", "kubernetes", "swarm"}

\* What supportedClusterTypes() of a concrete provisioner answers.
SupportedSets == {{"mesos"}, {"kubernetes"}, {"mesos", "kubernetes"}}

\* The clusterName argument: absent, empty, or a name.
ClusterNames == {None, Str_(<<>>), Str_(<<"c", "1">>)}

\* The nodeStorageOverrides argument: absent, empty, or one override that is
\* well formed, lacks the colon, or has a size that is not a number.
OverrideLists ==
    {None, List_(<<>>), List_(<< <<"r", ":", "5">> >>), List_(<< <<"r", "5">> >>),
     List_(<< <<"r", ":", "x">> >>)}

\* bool(value) of None or a string
Truthy(value) == value # None /\ value.v # <<>>

\* text.split(sep)
RECURSIVE SplitOn(_, _)
SplitOn(text, sep) ==
    IF \A i \in DOMAIN text : text[i] # sep THEN <<text>>
    ELSE LET i == CHOOSE k \in DOMAIN text : text[k] = sep /\ \A m \in 1..(k - 1) : text[m] # sep
         IN  <<SubSeq(text, 1, i - 1)>> \o SplitOn(SubSeq(text, i + 1, Len(text)), sep)

\* int(text) succeeds, for a text without sign or blanks
IsInt(text) == text # <<>> /\ \A i \in DOMAIN text : text[i] \in Range(Digits)

\* The loop over nodeStorageOverrides or []: the dict it fills, or the
\* ValueError of an override that does not unpack or does not parse.
RECURSIVE ParseOverrides(_, _)
ParseOverrides(overrides, sofar) ==
    IF overrides = <<>> THEN [ok |-> TRUE, dict |-> sofar]
    ELSE LET parts == SplitOn(Head(overrides), ":") IN
         IF Len(parts) # 2 \/ ~IsInt(parts[2]) THEN [ok |-> FALSE, dict |-> sofar]
         ELSE ParseOverrides(Tail(overrides),
                             [k \in DOMAIN sofar \cup {parts[1]} |->
                                 IF k = parts[1] THEN ParseInt(parts[2]) ELSE sofar[k]])

\* The mutant of TypeSupported that accepts every cluster type.
TypeSupportedAlways(clusterType, supported) == TRUE

\* not (self.clusterType not in self.supportedClusterTypes())
TypeSupported(clusterType, supported) == clusterType \in supported

\* The mutant of SettingsMethod that makes new settings when no name is given.
SettingsMethodSwapped(clusterName) ==
    IF Truthy(clusterName) THEN "readClusterSettings" ELSE "createClusterSettings"

\* if clusterName: createClusterSettings() else: readClusterSettings()
SettingsMethod(clusterName) ==
    IF Truthy(clusterName) THEN "createClusterSettings" ELSE "readClusterSettings"

\* How a settings method of the concrete provisioner may end.
SettingsOutcomes == {"ok", "raise"}

\* AbstractProvisioner.__init__(clusterName, clusterType, nodeStorageOverrides),
\* settings being how the settings method ends if it is called.
Construct(clusterName, clusterType, nodeStorageOverrides, settings) ==
    /\ cOutcome = "none"
    /\ cArgs' = [clusterName |-> clusterName, clusterType |-> clusterType,
                 nodeStorageOverrides |-> nodeStorageOverrides]
    /\ IF ~TypeSupported(clusterType, cSupported)
       THEN /\ cTrace' = <<"supportedClusterTypes">>
            /\ cOutcome' = "ClusterTypeNotSupportedException"
       ELSE LET parsed == ParseOverrides(IF nodeStorageOverrides = None THEN <<>>
                                         ELSE nodeStorageOverrides.v, <<>>)
            IN  IF ~parsed.ok
                THEN /\ cTrace' = <<"supportedClusterTypes">>
                     /\ cOutcome' = "ValueError"
                ELSE /\ cTrace' = <<"supportedClusterTypes", SettingsMethod(clusterName)>>
                     /\ cOutcome' = IF settings = "ok" THEN "ready" ELSE "SettingsError"
    /\ UNCHANGED cSupported
    /\ UNCHANGED notCtor

CtorInit ==
    /\ cSupported \in SupportedSets
    /\ cArgs = None
    /\ cTrace = <<>>
    /\ cOutcome = "none"

InitCtor == ExitIdle /\ RunIdle /\ AutoIdle /\ ProvIdle /\ ShapeIdle /\ CtorInit /\ ConfigIdle /\ QsubIdle /\ BootIdle /\ AdapterIdle /\ RenameIdle /\ SharedIdle

NextCtor ==
    \E clusterName \in ClusterNames, clusterType \in AskedClusterTypes,
       nodeStorageOverrides \in OverrideLists, settings \in SettingsOutcomes :
         Construct(clusterName, clusterType, nodeStorageOverrides, settings)

SpecCtor == InitCtor /\ [][NextCtor]_vars

\* The settings methods in the trace of the constructor.
SettingsCalls == SelectSeq(cTrace, LAMBDA m : m \in {"createClusterSettings", "readClusterSettings"})

\* C15: a construction with a cluster type that supportedClusterTypes() does
\* not hold ends with ClusterTypeNotSupportedException, and neither
\* createClusterSettings nor readClusterSettings has been invoked; that
\* exception is raised for no other construction.
C15_UnsupportedTypeFailsFirst ==
    cArgs # None =>
        /\ cArgs.clusterType \notin cSupported =>
              /\ cOutcome = "ClusterTypeNotSupportedException"
              /\ SettingsCalls = <<>>
        /\ cOutcome = "ClusterTypeNotSupportedException" => cArgs.clusterType \notin cSupported

\* A named cluster of a type the provisioner lacks was asked for and refused.
C15_Witness ==
    /\ cArgs # None
    /\ cArgs.clusterType \notin cSupported
    /\ Truthy(cArgs.clusterName)
    /\ cOutcome = "ClusterTypeNotSupportedException"
    /\ SettingsCalls = <<>>

\* C16: a construction that succeeds has invoked exactly one settings method,
\* once: createClusterSettings when a cluster name (a non-empty one) was given,
\* readClusterSettings otherwise; no construction invokes both or one twice.
C16_ExactlyOneSettingsPath ==
    /\ Len(SettingsCalls) <= 1
    /\ cOutcome = "ready" =>
         /\ Len(SettingsCalls) = 1
         /\ SettingsCalls[1] = IF cArgs.clusterName \notin {None, Str_(<<>>)}
                               THEN "createClusterSettings"
                               ELSE "readClusterSettings"

\* A provisioner was constructed without a cluster name and read the settings
\* of the existing cluster.
C16_Witness ==
    /\ cOutcome = "ready"
    /\ cArgs.clusterName = None
    /\ SettingsCalls = <<"readClusterSettings">>

(***************************************************************************)
(* The stored leader-worker authentication                                 *)
(***************************************************************************)
\* C17: the stored authentication is unset, or it is in the representation of
\* the provisioner's own backend, a public key string on mesos and a mapping
\* of join information on kubernetes, never in that of the other backend; and
\* it is unset until an establish has succeeded.
C17_RepresentationOfOwnBackend ==
    /\ \/ pAuth = None
       \/ pClusterType = "mesos" /\ pAuth.tag = "str"
       \/ pClusterType = "kubernetes" /\ pAuth.tag = "dict"
    /\ hAuthOp = "none" => pAuth = None
    /\ hEstablish # "ok" /\ hAuthOp # "establish" => pAuth = None

\* An establish on a kubernetes cluster whose leader also holds a key pair has
\* stored a mapping.
C17_Witness ==
    /\ pClusterType = "kubernetes"
    /\ fIdRsaPub # None
    /\ hAuthOp = "establish"
    /\ pAuth # None /\ pAuth.tag = "dict"

\* C18: after a successful establish on the kubernetes backend the stored
\* join material is a mapping that has JOIN_TOKEN, JOIN_CERT_HASH and
\* JOIN_ENDPOINT.
C18_JoinMaterialComplete ==
    pClusterType = "kubernetes" /\ hAuthOp = "establish" =>
        /\ pAuth.tag = "dict"
        /\ JoinKeys \subseteq DOMAIN pAuth.v

\* C19: forget leaves the authentication unset whatever was stored, changes
\* nothing else, can be called in every state, and a second forget, or a
\* forget when nothing is stored, leaves the state a first forget left.
C19_ForgetIdempotent ==
    /\ [](ENABLED ClearLeaderWorkerAuthentication)
    /\ [](hAuthOp = "forget" => pAuth = None)
    /\ [][ClearLeaderWorkerAuthentication =>
            /\ pAuth' = None
            /\ UNCHANGED <<pClusterType, fSshSuccess, fIdRsaPub, fWorkerIni>>
            /\ (hAuthOp = "forget" => UNCHANGED vars)]_vars

\* A forget was called while authentication was stored and used for a worker
\* document, and nothing is stored now.
C19_Witness ==
    /\ hAuthOp = "forget"
    /\ hEstablish = "ok"
    /\ dCall # None /\ dCall.auth # None
    /\ pAuth = None

\* The key data that _setSSH reads from a public key file.
KeyDataOf(pub) == pub.v[2]

\* C20: an establish on the mesos backend that finds key material not
\* starting with the RSA prefix fails with the assertion, and the stored
\* authentication is what it was before the call.
C20_BadKeyStoresNothing ==
    [][(EstablishMesos /\ fIdRsaPub' # None
            /\ ~KeyStartsWith(KeyDataOf(fIdRsaPub'), RSAPrefix))
        => (hEstablish' = "AssertionError" /\ pAuth' = pAuth /\ hAuthOp' = hAuthOp)]_vars

\* An establish on a leader whose key file holds a key of another kind has
\* failed with the assertion and nothing is stored.
C20_Witness ==
    /\ pClusterType = "mesos"
    /\ hEstablish = "AssertionError"
    /\ fIdRsaPub # None /\ ~KeyStartsWith(KeyDataOf(fIdRsaPub), RSAPrefix)
    /\ pAuth = None

(***************************************************************************)
(* Oversized bootstrap documents                                           *)
(***************************************************************************)
\* C21: whenever the rendered document is longer than the user-data limit,
\* the generation uploads it exactly once, under a key of the form
\* configs/<role>/config-<random id>.ign, and returns the redirect document,
\* which holds the format version and the replace source, the URL that the
\* upload returned, and nothing else.
C21_OversizedIsRedirected ==
    dConfig # None /\ DocLen(ToIgnitionConfig(dConfig)) > pLimit =>
        /\ Len(dWrites) = 1
        /\ \E id \in Uuids :
             dWrites[1].key = <<"configs/", dCall.role, "/config-", id, ".ign">>
        /\ dWrites[1].contents = ToIgnitionConfig(dConfig)
        /\ dReturn = [ignition |-> [version |-> "2.2.0",
                                    config |-> [replace |-> [source |-> dWrites[1].url]]]]

\* A worker document that embeds join material was longer than the limit: it
\* was uploaded and a redirect returned.
C21_Witness ==
    /\ dConfig # None /\ DocLen(ToIgnitionConfig(dConfig)) > pLimit
    /\ dCall.role = "worker" /\ dCall.auth # None
    /\ Len(dWrites) = 1
    /\ dReturn # ToIgnitionConfig(dConfig)
    /\ DOMAIN dReturn = {"ignition"}

(***************************************************************************)
(* InstanceConfiguration: add calls and renderings in any order            *)
(***************************************************************************)
\* The files, units and keys that callers add.
ConfigFiles ==
    { [path |-> "/etc/coreos/update.conf", mode |-> Mode0644, contents |-> "GROUP=stable"],
      [path |-> "/home/core/volumes.sh", mode |-> Mode0755, contents |-> "#!/bin/bash"] }
ConfigUnits == { [name |-> "node-exporter.service", contents |-> "[Unit]"] }
ConfigKeys == { <<"AAAAB3NzaC1yc2E", "xyz">>, <<"AAAAB3NzaC1yc2E", "k1">> }

\* config.addFile(path, mode=mode, contents=contents)
ConfigAddFile(f) ==
    /\ Len(iCalls) < MaxAdds
    /\ iConfig' = AddFile(iConfig, f.path, f.mode, f.contents)
    /\ iCalls' = Append(iCalls, [op |-> "addFile", args |-> f])
    /\ iRenders' = <<>>
    /\ UNCHANGED notConfig

\* config.addUnit(name, contents=contents)
ConfigAddUnit(u) ==
    /\ Len(iCalls) < MaxAdds
    /\ iConfig' = AddUnit(iConfig, u.name, u.contents)
    /\ iCalls' = Append(iCalls, [op |-> "addUnit", args |-> u])
    /\ iRenders' = <<>>
    /\ UNCHANGED notConfig

\* config.addSSHRSAKey(keyData)
ConfigAddSSHRSAKey(keyData) ==
    /\ Len(iCalls) < MaxAdds
    /\ iConfig' = AddSSHRSAKey(iConfig, keyData)
    /\ iCalls' = Append(iCalls, [op |-> "addSSHRSAKey", args |-> keyData])
    /\ iRenders' = <<>>
    /\ UNCHANGED notConfig

\* config.toIgnitionConfig()
ConfigRender ==
    /\ Len(iRenders) < MaxRenders
    /\ iRenders' = Append(iRenders, ToIgnitionConfig(iConfig))
    /\ UNCHANGED <<iConfig, iCalls>>
    /\ UNCHANGED notConfig

InitConfig == ExitIdle /\ RunIdle /\ AutoIdle /\ ProvIdle /\ ShapeIdle /\ CtorIdle /\ ConfigIdle /\ QsubIdle /\ BootIdle /\ AdapterIdle /\ RenameIdle /\ SharedIdle

NextConfig ==
    \/ \E f \in ConfigFiles : ConfigAddFile(f)
    \/ \E u \in ConfigUnits : ConfigAddUnit(u)
    \/ \E k \in ConfigKeys : ConfigAddSSHRSAKey(k)
    \/ ConfigRender

SpecConfig == InitConfig /\ [][NextConfig]_vars

\* The arguments of the calls of one add method, in the order of the calls.
ArgsOf(op) ==
    LET calls == SelectSeq(iCalls, LAMBDA c : c.op = op)
    IN  [i \in DOMAIN calls |-> calls[i].args]

\* C22: renderings with no add call in between are identical, and a rendering
\* leaves the builder as the add calls made it; addFile never deduplicates:
\* the builder and every rendering hold one file entry for each addFile call,
\* in the order of the calls, identical calls included.
C22_RenderDeterministicNoDedup ==
    LET added == ArgsOf("addFile") IN
    /\ \A i \in DOMAIN iRenders : iRenders[i] = iRenders[1]
    /\ Len(iConfig.files) = Len(added)
    /\ \A i \in DOMAIN added :
         /\ iConfig.files[i].path = added[i].path
         /\ iConfig.files[i].contents.source = <<"data:,", added[i].contents>>
    /\ Len(iConfig.units) = Len(ArgsOf("addUnit"))
    /\ Len(iConfig.sshPublicKeys) = Len(ArgsOf("addSSHRSAKey"))
    /\ \A i \in DOMAIN iRenders : iRenders[i].storage.files = iConfig.files

\* The same file was added twice, and the builder was rendered twice after it:
\* two entries, two identical renderings.
C22_Witness ==
    /\ Len(iCalls) >= 2
    /\ iCalls[1].op = "addFile" /\ iCalls[2] = iCalls[1]
    /\ Len(iRenders) = 2
    /\ Len(iRenders[2].storage.files) >= 2
    /\ iRenders[2].storage.files[1] = iRenders[2].storage.files[2]

\* C23: a rendering has the section of login users exactly when a key was
\* added with addSSHRSAKey; the section then has the one user core, whose
\* authorized keys are all the added keys, each after 'ssh-rsa ', in the order
\* of the calls and with duplicates kept.
C23_LoginUserIffKeys ==
    LET keys == ArgsOf("addSSHRSAKey") IN
    \A i \in DOMAIN iRenders :
        /\ "passwd" \in DOMAIN iRenders[i] <=> Len(keys) > 0
        /\ "passwd" \in DOMAIN iRenders[i] =>
              /\ Len(iRenders[i].passwd.users) = 1
              /\ iRenders[i].passwd.users[1].name = "core"
              /\ iRenders[i].passwd.users[1].sshAuthorizedKeys =
                    [k \in DOMAIN keys |-> <<"ssh-rsa ">> \o keys[k]]

\* The key AAAAB3NzaC1yc2Exyz alone was added and the builder rendered.
C23_Witness ==
    /\ Len(iRenders) > 0
    /\ ArgsOf("addSSHRSAKey") = << <<"AAAAB3NzaC1yc2E", "xyz">> >>
    /\ iRenders[1].passwd.users[1].sshAuthorizedKeys = << <<"ssh-rsa ", "AAAAB3NzaC1yc2E", "xyz">> >>

(***************************************************************************)
(* The Toil service of a bootstrap document                                *)
(***************************************************************************)
\* The names of the Toil service units.
ToilUnitNames == {"toil-leader.service", "toil-worker.service"}

\* C24: a generated document holds the unit toil-<role>.service, and no Toil
\* unit of the other role, exactly when the cluster type is mesos or the role
\* is leader; a kubernetes worker document holds no Toil unit, and a
\* generation for a kubernetes worker fails only for stored join information
\* that lacks a value, never for the Toil service.
C24_ToilServiceIffMesosOrLeader ==
    dCall # None =>
        /\ dConfig # None =>
             LET doc == FullDocument
                 own == "toil-" \o dCall.role \o ".service"
             IN  /\ own \in UnitNames(doc) <=>
                        (pClusterType = "mesos" \/ dCall.role = "leader")
                 /\ UnitNames(doc) \cap ToilUnitNames \subseteq {own}
                 /\ pClusterType = "kubernetes" /\ dCall.role = "worker" =>
                        UnitNames(doc) \cap ToilUnitNames = {}
        /\ pClusterType = "kubernetes" /\ dCall.role = "worker" /\ dConfig = None =>
             /\ dCall.auth # None
             /\ ~(JoinKeys \subseteq DOMAIN dCall.auth.v)

\* A document for a kubernetes worker was generated, without a Toil unit.
C24_Witness ==
    /\ dCall # None /\ dConfig # None
    /\ pClusterType = "kubernetes" /\ dCall.role = "worker"
    /\ UnitNames(FullDocument) \cap ToilUnitNames = {}
    /\ "kubelet.service" \in UnitNames(FullDocument)

(***************************************************************************)
(* GridEngineThread.prepareSubmission and prepareQsub                      *)
(***************************************************************************)
\* A text (an argument of the command line, the value of a variable) is a
\* sequence of pieces; the piece " " is a blank.  A command line is a sequence
\* of arguments.

\* What TOIL_GRIDENGINE_ARGS may hold: not set, empty, a queue, a memory
\* request, a parallel environment, and a resource list that has a memory
\* request after another resource.
ArgsSettings ==
    {None, Str_(<<>>),
     Str_(<<"-q", " ", "long">>),
     Str_(<<"-l", " ", "vf=", "1G">>),
     Str_(<<"-l", " ", "h_vmem=", "1G">>),
     Str_(<<"-pe", " ", "smp", " ", "2">>),
     Str_(<<"-l", " ", "h_rt=", "3600", ",", "vf=", "1G">>)}

\* What TOIL_GRIDENGINE_PE may hold.
PeSettings == {None, Str_(<<>>), Str_(<<"smp">>)}

\* self.boss.environment and the job_environment argument
BossEnvironments == { <<>>, << <<"A", <<"x">>>> >> }
JobEnvironments == { None, List_(<< <<"B", <<"y", " ", "z">>>> >>), List_(<< <<"A", <<"w">>>> >>) }

\* The cpu argument: None, 1, 4, 0.5 and 1.5
CpuValues == {None, Int_(1), Int_(4), Float_(50), Float_(150)}

\* The mem argument, in bytes
MemValues == {None, Int_(1000), Int_(2048), Int_(3000)}

JobIDs == {12}
Commands == { <<"_toil_worker", " ", "job">> }

\* text.split(): the words between the blanks
SplitWords(text) == SelectSeq(SplitOn(text, " "), LAMBDA w : w # <<>>)

\* shlex.split(command), for a command without quotes
ShlexSplit(command) == SplitWords(command)

\* shlex.quote(value): as it is when it has no blank, else in single quotes
Quote(value) ==
    IF value # <<>> /\ \A i \in DOMAIN value : value[i] # " " THEN value
    ELSE <<"'">> \o value \o <<"'">>

\* ','.join(texts)
RECURSIVE JoinComma(_)
JoinComma(texts) ==
    IF texts = <<>> THEN <<>>
    ELSE IF Len(texts) = 1 THEN texts[1]
    ELSE texts[1] \o <<",">> \o JoinComma(Tail(texts))

\* environment.update(job_environment), on lists of <<name, value>> in the
\* order of the dict
RECURSIVE EnvUpdate(_, _)
EnvUpdate(environment, more) ==
    IF more = <<>> THEN environment
    ELSE LET k == more[1][1]
             v == more[1][2]
             hit == {i \in DOMAIN environment : environment[i][1] = k}
         IN  EnvUpdate(IF hit # {}
                       THEN [i \in DOMAIN environment |->
                                IF i \in hit THEN <<k, v>> ELSE environment[i]]
                       ELSE Append(environment, <<k, v>>),
                       Tail(more))

\* cpu > 1
MoreThanOne(cpu) == IF cpu.tag = "int" THEN cpu.v > 1 ELSE cpu.v > 100

\* int(math.ceil(cpu))
Ceil(cpu) == IF cpu.tag = "int" THEN cpu.v ELSE (cpu.v + 99) \div 100

\* The mutant of MemStr that rounds up.
MemStrRoundedUp(mem) == StrOfInt((mem.v + 1023) \div 1024) \o <<"K">>

\* str(mem // 1024) + 'K'
MemStr(mem) == StrOfInt(mem.v \div 1024) \o <<"K">>

\* The mutant of UsesParallelEnvironment that does not look at the cpu count.
UsesParallelEnvironmentAnyCpu(pe, cpu) == pe # None /\ cpu # None

\* (os.getenv('TOIL_GRIDENGINE_PE') is not None) and (cpu is not None) and (cpu > 1)
UsesParallelEnvironment(pe, cpu) == pe # None /\ cpu # None /\ MoreThanOne(cpu)

\* arg.startswith(("vf=", "h_vmem=", "-pe"))
ManagedPrefixes == {"vf=", "h_vmem=", "-pe"}
StartsWithManaged(arg) == arg # <<>> /\ arg[1] \in ManagedPrefixes

\* self.boss.format_std_out_err_path(jobID, '$JOB_ID', kind)
FormatStdOutErrPath(jobID, kind) ==
    <<"toil_job_">> \o StrOfInt(jobID) \o <<"_batch_$JOB_ID.", kind>>

\* prepareQsub(cpu, mem, jobID, job_environment): the command line, or the
\* exception raised.
PrepareQsub(cpu, mem, jobID, job_environment) ==
    LET base == << <<"qsub">>, <<"-V">>, <<"-b">>, <<"y">>, <<"-terse">>, <<"-j">>, <<"y">>,
                   <<"-cwd">>, <<"-N">>, <<"toil_job_">> \o StrOfInt(jobID) >>
        environment == IF job_environment # None /\ job_environment.v # <<>>
                       THEN EnvUpdate(qBossEnv, job_environment.v)
                       ELSE qBossEnv
        withEnv == IF environment # <<>>
                   THEN base \o << <<"-v">>,
                                   JoinComma([i \in DOMAIN environment |->
                                      <<environment[i][1], "=">> \o Quote(environment[i][2])]) >>
                   ELSE base
        sgeArgs == qArgsEnv
        reqline == IF mem # None /\ ~qManualMemArgs
                   THEN << <<"vf=">> \o MemStr(mem), <<"h_vmem=">> \o MemStr(mem) >>
                   ELSE <<>>
        withReq == IF Len(reqline) > 0
                   THEN withEnv \o << <<"-hard">>, <<"-l">>, JoinComma(reqline) >>
                   ELSE withEnv
        args == IF Truthy(sgeArgs) THEN SplitWords(sgeArgs.v) ELSE <<>>
        withArgs == withReq \o args
        withPe == IF UsesParallelEnvironment(qPeEnv, cpu)
                  THEN withArgs \o << <<"-pe">>, qPeEnv.v, StrOfInt(Ceil(cpu)) >>
                  ELSE withArgs
        qsubline == withPe \o << <<"-o">>, FormatStdOutErrPath(jobID, "out"),
                                 <<"-e">>, FormatStdOutErrPath(jobID, "err") >>
    IN  IF mem # None /\ qManualMemArgs /\ ~Truthy(sgeArgs)
        THEN [raised |-> "ValueError: manualMemArgs", line |-> <<>>]
        ELSE IF \E i \in DOMAIN args : StartsWithManaged(args[i])
        THEN [raised |-> "ValueError: unexpected specification", line |-> <<>>]
        ELSE IF ~UsesParallelEnvironment(qPeEnv, cpu) /\ cpu # None /\ MoreThanOne(cpu)
        THEN [raised |-> "RuntimeError: must specify PE", line |-> <<>>]
        ELSE [raised |-> "none", line |-> qsubline]

\* prepareSubmission(cpu, memory, jobID, command, jobName, job_environment)
PrepareSubmission(cpu, memory, jobID, command, job_environment) ==
    LET got == PrepareQsub(cpu, memory, jobID, job_environment) IN
    /\ qCall' = [cpu |-> cpu, memory |-> memory, jobID |-> jobID, command |-> command,
                 job_environment |-> job_environment]
    /\ qRaised' = got.raised
    /\ qReturn' = IF got.raised = "none" THEN List_(got.line \o ShlexSplit(command)) ELSE None
    /\ UNCHANGED <<qArgsEnv, qPeEnv, qManualMemArgs, qBossEnv>>
    /\ UNCHANGED notQsub

QsubInit ==
    /\ qArgsEnv \in ArgsSettings
    /\ qPeEnv \in PeSettings
    /\ qManualMemArgs \in BOOLEAN
    /\ qBossEnv \in BossEnvironments
    /\ qCall = None
    /\ qReturn = None
    /\ qRaised = "none"

InitQsub ==
    ExitIdle /\ RunIdle /\ AutoIdle /\ ProvIdle /\ ShapeIdle /\ CtorIdle /\ ConfigIdle /\ QsubInit /\ BootIdle /\ AdapterIdle /\ RenameIdle /\ SharedIdle

NextQsub ==
    \E cpu \in CpuValues, memory \in MemValues, jobID \in JobIDs, command \in Commands,
       job_environment \in JobEnvironments :
         PrepareSubmission(cpu, memory, jobID, command, job_environment)

SpecQsub == InitQsub /\ [][NextQsub]_vars

\* The places of the command line that hold the argument -pe.
PePlaces(line) == {i \in DOMAIN line : line[i] = <<"-pe">>}

\* C25: a command line that prepareSubmission returns has a parallel
\* environment argument, -pe with the environment and the cpu count rounded
\* up, exactly when cpu is more than 1 and TOIL_GRIDENGINE_PE is set; a call
\* with cpu more than 1 and no parallel environment set fails, with the
\* RuntimeError unless the memory or extra arguments are refused first; and a
\* call with cpu 1, less, or None never has the argument and never fails so.
C25_ParallelEnvironmentIffMultiCpu ==
    qCall # None =>
        LET cpu == qCall.cpu
            many == cpu # None /\ (IF cpu.tag = "int" THEN cpu.v > 1 ELSE cpu.v > 100)
            slots == IF cpu.tag = "int" THEN cpu.v ELSE (cpu.v + 99) \div 100
        IN  /\ qReturn # None =>
                /\ PePlaces(qReturn.v) # {} <=> (many /\ qPeEnv # None)
                /\ \A i \in PePlaces(qReturn.v) :
                     /\ qReturn.v[i + 1] = qPeEnv.v
                     /\ qReturn.v[i + 2] = StrOfInt(slots)
                /\ Cardinality(PePlaces(qReturn.v)) <= 1
            /\ many /\ qPeEnv = None =>
                /\ qReturn = None
                /\ qRaised \in {"RuntimeError: must specify PE", "ValueError: manualMemArgs",
                                "ValueError: unexpected specification"}
                /\ (qCall.memory = None /\ qArgsEnv = None) =>
                       qRaised = "RuntimeError: must specify PE"
            /\ ~many => qRaised # "RuntimeError: must specify PE"

\* A submission with 1.5 cpus was prepared with the parallel environment smp:
\* the command line asks for -pe smp 2.
C25_Witness ==
    /\ qCall # None /\ qCall.cpu = Float_(150)
    /\ qPeEnv = Str_(<<"smp">>)
    /\ qReturn # None
    /\ \E i \in PePlaces(qReturn.v) :
         qReturn.v[i + 1] = <<"smp">> /\ qReturn.v[i + 2] = <<"2">>

\* The number of whole kibibytes in a number of bytes.
WholeKiB(bytes) == CHOOSE k \in 0..bytes : k * 1024 <= bytes /\ bytes < (k + 1) * 1024

\* The argument is, or has in it, a memory request.
HasMemoryRequest(arg) == \E i \in DOMAIN arg : arg[i] \in {"vf=", "h_vmem="}

\* C26: for a call with a memory request: outside manual-memory mode a
\* returned command line has -hard -l vf=<m>K,h_vmem=<m>K with m the memory
\* divided by 1024 and rounded down; in manual-memory mode the adapter adds no
\* memory argument, and when TOIL_GRIDENGINE_ARGS is not set (or empty) the
\* call fails with the ValueError and returns no command line.
C26_MemoryRequest ==
    qCall # None /\ qCall.memory # None =>
        LET m == StrOfInt(WholeKiB(qCall.memory.v))
            request == <<"vf=">> \o m \o <<"K", ",", "h_vmem=">> \o m \o <<"K">>
        IN  /\ ~qManualMemArgs /\ qReturn # None =>
                \E i \in DOMAIN qReturn.v :
                    /\ qReturn.v[i] = <<"-hard">>
                    /\ qReturn.v[i + 1] = <<"-l">>
                    /\ qReturn.v[i + 2] = request
            /\ qManualMemArgs /\ qReturn # None =>
                /\ \A i \in DOMAIN qReturn.v :
                     qReturn.v[i] # <<"-hard">> /\ qReturn.v[i] # request
                /\ qArgsEnv # None /\ qArgsEnv.v # <<>>
            /\ qManualMemArgs /\ (qArgsEnv = None \/ qArgsEnv = Str_(<<>>)) =>
                /\ qReturn = None
                /\ qRaised = "ValueError: manualMemArgs"

\* A submission with 3000 bytes of memory was prepared outside manual-memory
\* mode: the command line asks for vf=2K,h_vmem=2K.
C26_Witness ==
    /\ qCall # None /\ qCall.memory = Int_(3000)
    /\ ~qManualMemArgs
    /\ qReturn # None
    /\ \E i \in DOMAIN qReturn.v :
         qReturn.v[i] = <<"vf=", "2", "K", ",", "h_vmem=", "2", "K">>

\* The arguments that TOIL_GRIDENGINE_ARGS holds.
OperatorArgs == IF qArgsEnv = None THEN <<>> ELSE SplitWords(qArgsEnv.v)

\* C27: whenever TOIL_GRIDENGINE_ARGS has a memory request (vf=, h_vmem=) or
\* a parallel environment (-pe) in it, prepareSubmission fails with the
\* ValueError, in manual-memory mode and outside it, so that no command line
\* it returns has a memory request or a parallel environment of the operator.
C27_OperatorCollisionsRefused ==
    qCall # None =>
        /\ (\E i \in DOMAIN OperatorArgs :
               HasMemoryRequest(OperatorArgs[i]) \/ OperatorArgs[i][1] = "-pe") =>
             /\ qReturn = None
             /\ qRaised \in {"ValueError: unexpected specification",
                             "ValueError: manualMemArgs"}
        /\ qReturn # None =>
             \A i \in DOMAIN OperatorArgs :
                 ~HasMemoryRequest(OperatorArgs[i]) /\ OperatorArgs[i][1] # "-pe"

(***************************************************************************)
(* Managed nodes                                                           *)
(***************************************************************************)
\* Some call of addManagedNodes is this step.
AddManagedNodesStep ==
    \E nodeTypes \in ManagedNodeTypes, minNodes \in ManagedNodeCounts,
       maxNodes \in ManagedNodeCounts, preemptible \in BOOLEAN, spotBid \in ManagedSpotBids :
         AddManagedNodes(nodeTypes, minNodes, maxNodes, preemptible, spotBid)

\* C28: addManagedNodes of the abstract provisioner can be called in every
\* state and with any arguments, and every call of it raises
\* ManagedNodesNotSupportedException, which is not the exception of an
\* unsupported cluster type, returns nothing, and leaves the autoscaling
\* tables and all other state of the provisioner as they were.
C28_ManagedNodesUnsupported ==
    /\ [](ENABLED AddManagedNodesStep)
    /\ [](aRet.op = "addManagedNodes" =>
            /\ aRet.raised = "ManagedNodesNotSupportedException"
            /\ aRet.raised # "ClusterTypeNotSupportedException"
            /\ aRet.val = None)
    /\ [][AddManagedNodesStep =>
            /\ aRet'.raised = "ManagedNodesNotSupportedException"
            /\ UNCHANGED <<aShapeTable, aSpotBids, provVars, ctorVars>>]_vars

\* addManagedNodes was called on a provisioner whose autoscaling tables are
\* set, and raised.
C28_Witness ==
    /\ aRet.op = "addManagedNodes"
    /\ aRet.raised = "ManagedNodesNotSupportedException"
    /\ aOutcome = "ok"
    /\ Entries(aShapeTable) # {}

(***************************************************************************)
(* The key pair of the leader                                              *)
(***************************************************************************)
\* The keys that establish calls have returned.
ReturnedKeys == {r.key : r \in hKeys}

UnitsOf(doc) == {doc.systemd.units[i] : i \in DOMAIN doc.systemd.units}
FilesOf(doc) == {doc.storage.files[i] : i \in DOMAIN doc.storage.files}

\* The units that set a node up once.
SetupUnitNames ==
    {"install-kubernetes.service", "create-kubernetes-cluster.service",
     "join-kubernetes-cluster.service"}

\* A unit is gated by a completion marker: it is skipped when the marker is
\* there, and the script it runs is in the document and makes that marker as
\* its last command.
MarkerGated(doc, u) ==
    /\ ConditionPathExists(u.contents) # "none"
    /\ \E f \in FilesOf(doc) :
         /\ f.path = ExecStartScript(u.contents)
         /\ FlagFile(f.contents.source[2]) = ConditionPathExists(u.contents)

MaxStarts == 3

\* A command of a setup script.  kind says how bash, under set -e, takes the
\* exit status of the commands in it:
\*   "simple"        a non-zero status ends the script
\*   "pipeline"      the status is that of the last command of the pipeline,
\*                   which gets no valid input when an earlier one fails
\*   "substitution"  the command has a $(...) in an argument: the status is
\*                   that of the outer command, whatever the inner one did
\*   "touch"         touch "$FLAG_FILE"
Step(cmd, kind) == [cmd |-> cmd, kind |-> kind]

\* /home/core/install-kubernetes.sh
InstallKubernetesScript ==
    << Step("systemctl enable docker.service", "simple"),
       Step("mkdir -p CNI_DIR", "simple"),
       Step("curl cni-plugins | tar", "pipeline"),
       Step("mkdir -p DOWNLOAD_DIR", "simple"),
       Step("curl crictl | tar", "pipeline"),
       Step("cd DOWNLOAD_DIR", "simple"),
       Step("curl kubeadm kubelet kubectl", "simple"),
       Step("chmod +x kubeadm kubelet kubectl", "simple"),
       Step("mkdir -p SETUP_STATE_DIR", "simple"),
       Step("touch FLAG_FILE", "touch") >>

\* /home/core/create-kubernetes-cluster.sh
CreateKubernetesClusterScript ==
    << Step("systemctl start kubelet", "simple"),
       Step("hostnamectl set-hostname $(curl hostname)", "substitution"),
       Step("if no admin.conf: kubeadm init", "simple"),
       Step("mkdir -p HOME/.kube", "simple"),
       Step("cp admin.conf HOME/.kube/config", "simple"),
       Step("chown $(id -u):$(id -g) HOME/.kube/config", "substitution"),
       Step("kubectl apply kube-flannel.yml", "simple"),
       Step("kubectl apply service_account.yaml", "simple"),
       Step("kubectl apply role.yaml", "simple"),
       Step("kubectl apply role_binding.yaml", "simple"),
       Step("kubectl apply operator.yaml", "simple"),
       Step("getKubernetesAutoscalerSetupCommands", "simple"),
       Step("curl components.yaml | sed | kubectl apply", "pipeline"),
       Step("echo [DEFAULT] > worker.ini", "simple"),
       Step("echo JOIN_TOKEN=$(kubeadm token create) >> worker.ini", "substitution"),
       Step("echo JOIN_CERT_HASH=sha256:$(openssl) >> worker.ini", "substitution"),
       Step("echo JOIN_ENDPOINT=$(hostname):6443 >> worker.ini", "substitution"),
       Step("mkdir -p SETUP_STATE_DIR", "simple"),
       Step("touch FLAG_FILE", "touch") >>

\* /home/core/join-kubernetes-cluster.sh
JoinKubernetesClusterScript ==
    << Step("systemctl start kubelet", "simple"),
       Step("kubeadm join", "simple"),
       Step("mkdir -p SETUP_STATE_DIR", "simple"),
       Step("touch FLAG_FILE", "touch") >>

\* The units with ConditionPathExists=!<marker>, and the script each runs.
SetupUnits ==
    {"install-kubernetes.service", "create-kubernetes-cluster.service",
     "join-kubernetes-cluster.service"}

ScriptOf(unit) ==
    IF unit = "install-kubernetes.service" THEN InstallKubernetesScript
    ELSE IF unit = "create-kubernetes-cluster.service" THEN CreateKubernetesClusterScript
    ELSE JoinKubernetesClusterScript

\* The exit status that set -e sees for a step: inner is whether the commands
\* inside $(...) succeeded, outer whether the command itself did.
StepStatus(step, inner, outer) ==
    IF step.kind = "substitution" THEN outer
    ELSE inner /\ outer

\* A node that is to run one of the setup units, nothing started yet.
BootInit ==
    /\ bUnit \in SetupUnits
    /\ bPc = "inactive"
    /\ bStep = 0
    /\ bMarker = FALSE
    /\ bStarts = 0
    /\ bSwallowed = FALSE
    /\ hMarkerRun = "none"
    /\ hRunsWithMarker = 0

\* The boot agent starts the unit, at boot or after a failure
\* (Restart=on-failure): with the marker there the condition fails and the
\* unit is skipped, else ExecStart runs the script from its first command.
StartUnit ==
    /\ bPc \in {"inactive", "failed"}
    /\ bStarts < MaxStarts
    /\ bStarts' = bStarts + 1
    /\ LET marker == ConditionPathExists(Text(bUnit, <<>>))
       IN  IF marker # "none" /\ bMarker
           THEN bPc' = "skipped" /\ bStep' = 0 /\ UNCHANGED hRunsWithMarker
           ELSE /\ bPc' = "running" /\ bStep' = 1
                /\ hRunsWithMarker' = IF bMarker THEN hRunsWithMarker + 1
                                      ELSE hRunsWithMarker
    /\ bSwallowed' = FALSE
    /\ UNCHANGED <<bUnit, bMarker, hMarkerRun>>
    /\ UNCHANGED notBoot

\* The next command of the running script, under set -e.
RunStep(inner, outer) ==
    /\ bPc = "running"
    /\ LET script == ScriptOf(bUnit)
           step == script[bStep]
           status == StepStatus(step, inner, outer)
           swallowed == bSwallowed \/ (status /\ ~(inner /\ outer))
       IN  /\ bSwallowed' = swallowed
           /\ IF ~status
              THEN bPc' = "failed" /\ bStep' = 0 /\ UNCHANGED <<bMarker, hMarkerRun>>
              ELSE /\ IF step.kind = "touch"
                      THEN /\ bMarker' = TRUE
                           /\ hMarkerRun' = IF swallowed THEN "unclean" ELSE "clean"
                      ELSE UNCHANGED <<bMarker, hMarkerRun>>
                   /\ IF bStep = Len(script)
                      THEN bPc' = "exited" /\ bStep' = 0
                      ELSE bPc' = "running" /\ bStep' = bStep + 1
    /\ UNCHANGED <<bUnit, bStarts, hRunsWithMarker>>
    /\ UNCHANGED notBoot

\* The node reboots, whatever the unit was doing; the files stay.
Reboot ==
    /\ bPc # "inactive"
    /\ bPc' = "inactive"
    /\ bStep' = 0
    /\ bSwallowed' = FALSE
    /\ UNCHANGED <<bUnit, bMarker, bStarts, hMarkerRun, hRunsWithMarker>>
    /\ UNCHANGED notBoot

InitBoot ==
    ExitIdle /\ RunIdle /\ AutoIdle /\ ProvIdle /\ ShapeIdle /\ CtorIdle /\ ConfigIdle
        /\ QsubIdle /\ BootInit /\ AdapterIdle /\ RenameIdle /\ SharedIdle

NextBoot ==
    \/ StartUnit
    \/ \E inner \in BOOLEAN, outer \in BOOLEAN : RunStep(inner, outer)
    \/ Reboot

SpecBoot == InitBoot /\ [][NextBoot]_vars

\* C31: for each setup unit, whatever steps fail and however often the boot
\* agent starts the unit again, the marker is there only if a run of the
\* script had every command before the touch succeed, and no run of the
\* script begins while the marker is there.
C31_MarkerMeansCompleteRun ==
    /\ bMarker => hMarkerRun = "clean"
    /\ bPc = "running" => ~bMarker
    /\ hRunsWithMarker = 0

(***************************************************************************)
(* The kubernetes units of a document                                      *)
(***************************************************************************)
\* The units of addKubernetesServices, and those of addKubernetesLeader.
PackageUnitNames == {"kubelet.service", "install-kubernetes.service"}
ControlPlaneUnitNames == {"create-kubernetes-cluster.service", "cleanup-nodes.service"}

\* C32: a generated kubernetes document holds kubelet.service and
\* install-kubernetes.service for either role, and holds
\* create-kubernetes-cluster.service and cleanup-nodes.service, both of them,
\* exactly when the role is leader; a mesos document holds none of the four.
C32_KubernetesUnitsByRole ==
    dCall # None /\ dConfig # None =>
        LET names == UnitNames(FullDocument) IN
        /\ pClusterType = "kubernetes" =>
             /\ PackageUnitNames \subseteq names
             /\ dCall.role = "leader" => ControlPlaneUnitNames \subseteq names
             /\ dCall.role # "leader" => ControlPlaneUnitNames \cap names = {}
        /\ pClusterType = "mesos" =>
             (PackageUnitNames \cup ControlPlaneUnitNames) \cap names = {}

\* Documents of a kubernetes worker were generated: it has the package units
\* and no control-plane unit.
C32_Witness ==
    /\ dCall # None /\ dConfig # None
    /\ pClusterType = "kubernetes" /\ dCall.role = "worker"
    /\ PackageUnitNames \subseteq UnitNames(FullDocument)
    /\ ControlPlaneUnitNames \cap UnitNames(FullDocument) = {}

(***************************************************************************)
(* The ordering that the units of a document declare                       *)
(***************************************************************************)
\* The pairs <<x, y>> for which a unit of the document declares that x is to
\* be started before y.
StartsBefore(doc) ==
    UNION { {<<a, u.name>> : a \in UnitRelations(u.contents).after}
              \cup {<<u.name, b>> : b \in UnitRelations(u.contents).before}
            : u \in UnitsOf(doc) }

\* The pairs <<x, y>> for which a unit of the document declares that y
\* requires x.
RequiredFor(doc) ==
    UNION { {<<a, u.name>> : a \in UnitRelations(u.contents).requires}
              \cup {<<u.name, b>> : b \in UnitRelations(u.contents).requiredBy}
            : u \in UnitsOf(doc) }

\* The units that can be reached from the units in from along the pairs of
\* rel in one step or more.
RECURSIVE ReachableFrom(_, _)
ReachableFrom(from, rel) ==
    LET next == from \cup {p[2] : p \in {q \in rel : q[1] \in from}}
    IN  IF next = from THEN from ELSE ReachableFrom(next, rel)

Successors(x, rel) == ReachableFrom({p[2] : p \in {q \in rel : q[1] = x}}, rel)

\* No unit is, by the pairs of rel, to be started before itself.
Acyclic(rel) ==
    \A x \in {p[1] : p \in rel} : x \notin Successors(x, rel)

\* What a unit of the document declares, by its name.
RelationsOf(doc, name) ==
    LET u == CHOOSE v \in UnitsOf(doc) : v.name = name IN UnitRelations(u.contents)

\* C33: in every document of a kubernetes leader the units declare their
\* order themselves: create-kubernetes-cluster declares After=install-kubernetes
\* and Before=toil-leader, toil-leader declares After=create-kubernetes-cluster,
\* cleanup-nodes declares Requires= and After=create-kubernetes-cluster,
\* install-kubernetes declares Before=kubelet; and in every generated document
\* the declared before/after pairs have no cycle.
C33_DeclaredOrderAcyclic ==
    dCall # None /\ dConfig # None =>
        LET doc == FullDocument IN
        /\ Acyclic(StartsBefore(doc))
        /\ pClusterType = "kubernetes" /\ dCall.role = "leader" =>
             /\ "install-kubernetes.service"
                    \in RelationsOf(doc, "create-kubernetes-cluster.service").after
             /\ "toil-leader.service"
                    \in RelationsOf(doc, "create-kubernetes-cluster.service").before
             /\ "create-kubernetes-cluster.service"
                    \in RelationsOf(doc, "toil-leader.service").after
             /\ "create-kubernetes-cluster.service"
                    \in RelationsOf(doc, "cleanup-nodes.service").after
             /\ "create-kubernetes-cluster.service"
                    \in RelationsOf(doc, "cleanup-nodes.service").requires
             /\ "kubelet.service" \in RelationsOf(doc, "install-kubernetes.service").before
             /\ <<"create-kubernetes-cluster.service", "cleanup-nodes.service">>
                    \in RequiredFor(doc)
             /\ "toil-leader.service"
                    \in Successors("install-kubernetes.service", StartsBefore(doc))

\* A document of a kubernetes leader was generated, with the Toil service,
\* the cluster bootstrap unit and the cleanup unit in it.
C33_Witness ==
    /\ dCall # None /\ dConfig # None
    /\ pClusterType = "kubernetes" /\ dCall.role = "leader"
    /\ {"toil-leader.service", "create-kubernetes-cluster.service",
        "cleanup-nodes.service", "install-kubernetes.service", "kubelet.service"}
           \subseteq UnitNames(FullDocument)
    /\ <<"create-kubernetes-cluster.service", "toil-leader.service">>
           \in StartsBefore(FullDocument)

(***************************************************************************)
(* The keys of the map that getRunningJobIDs returns                       *)
(***************************************************************************)
\* The jobs of a snapshot that a listing shows in state 'r'.
ListedRunning(snapshot, listing) ==
    { j \in snapshot :
        \E i \in DOMAIN listing :
            listing[i].id = StrOfInt(BatchIDOf(j)) /\ listing[i].state = "r" }

\* C34: whatever listing the queue answers to a getRunningJobIDs that has
\* taken its snapshot of the tracked jobs, the keys of the returned map are
\* exactly the jobs of the snapshot whose batch identifier is on a line of the
\* listing with state 'r'; a returned map has no key for a job that was not
\* in the snapshot.
C34_KeysAreTrackedAndRunning ==
    /\ gPc = "inqstat" =>
         \A listing \in SeqsUpTo(QstatListingLines, MaxListing), now \in ClockValues :
            DOMAIN TimesFromListing(listing, gCurrent, now, gTimes)
                = ListedRunning(hAtEnd, listing)
    /\ gPc \in {"inqstat", "done"} =>
         /\ {gCurrent[k] : k \in DOMAIN gCurrent} = hAtEnd
         /\ DOMAIN gTimes \subseteq hAtEnd

\* A call returned a map with a key for one job of its snapshot and none for
\* another job of it.
C34_Witness ==
    /\ gPc = "done"
    /\ DOMAIN gTimes # {}
    /\ hAtEnd \ DOMAIN gTimes # {}

(***************************************************************************)
(* The four methods of the adapter that run an external command            *)
(***************************************************************************)
Methods == {"submitJob", "killJob", "getRunningJobIDs", "getJobExitCode"}

\* The first line of what qsub writes to stdout.
QsubFirstLines == { <<"4", "2">>, <<"Y", "o", "u", "r", " ", "j", "o", "b">>, <<>> }

\* call_command(subLine), call_command(['qdel', id]): it returns stdout, or it
\* fails with CalledProcessErrorStderr carrying the tool's stderr.
QsubOutcomes ==
    {[ok |-> TRUE, stdout |-> l, stderr |-> <<>>] : l \in QsubFirstLines}
        \cup {[ok |-> FALSE, stdout |-> <<>>, stderr |-> e] : e \in StderrTexts}

QdelOutcomes ==
    {[ok |-> TRUE, stdout |-> <<>>, stderr |-> <<>>]}
        \cup {[ok |-> FALSE, stdout |-> <<>>, stderr |-> e] : e \in StderrTexts}

\* submitJob(subLine)
SubmitJob(out) ==
    /\ kMethod = "submitJob"
    /\ kCalls' = [qsub |-> 1, qdel |-> 0]
    /\ kOutcome' = out
    /\ IF ~out.ok
       THEN kRaised' = "CalledProcessErrorStderr" /\ kResult' = None
       ELSE IF IsInt(out.stdout)
            THEN kRaised' = "none" /\ kResult' = Int_(ParseInt(out.stdout))
            ELSE kRaised' = "ValueError" /\ kResult' = None
    /\ UNCHANGED kMethod
    /\ UNCHANGED notAdapter

\* The mutant of KillJob that does not tell its caller of a failure of qdel.
KillJobBestEffort(jobID, out) ==
    /\ kMethod = "killJob"
    /\ kCalls' = [qsub |-> 0, qdel |-> 1]
    /\ kOutcome' = out
    /\ kRaised' = "none"
    /\ kResult' = None
    /\ UNCHANGED kMethod
    /\ UNCHANGED notAdapter

\* killJob(jobID)
KillJob(jobID, out) ==
    /\ kMethod = "killJob"
    /\ kCalls' = [qsub |-> 0, qdel |-> 1]
    /\ kOutcome' = out
    /\ kRaised' = IF out.ok THEN "none" ELSE "CalledProcessErrorStderr"
    /\ kResult' = None
    /\ UNCHANGED kMethod
    /\ UNCHANGED notAdapter

\* A caller that uses one of the four methods, again and again.
AdapterInit ==
    /\ kMethod \in Methods
    /\ kCalls = [qsub |-> 0, qdel |-> 0]
    /\ kOutcome = None
    /\ kResult = None
    /\ kRaised = "none"

InitAdapter ==
    ExitIdle /\ RunIdle /\ AutoIdle /\ ProvIdle /\ ShapeIdle /\ CtorIdle /\ ConfigIdle
        /\ QsubIdle /\ BootIdle /\ AdapterInit /\ RenameIdle /\ SharedIdle

NextAdapter ==
    \/ \E out \in QsubOutcomes : SubmitJob(out)
    \/ \E jobID \in Jobs, out \in QdelOutcomes : KillJob(jobID, out)
    \/ kMethod = "getRunningJobIDs" /\ NextRun
    \/ kMethod = "getJobExitCode" /\ NextExit

SpecAdapter == InitAdapter /\ [][NextAdapter]_vars

\* The external command of the latest submitJob or killJob failed.
CommandFailed == kOutcome # None /\ ~kOutcome.ok

\* C35: in one call of submitJob, killJob, getRunningJobIDs or getJobExitCode
\* each of qsub, qdel, qstat and qacct is run at most once, and a failure of
\* the command leaves the call as an exception, with nothing returned, except
\* the failure of qstat -j that carries "Following jobs do not exist", after
\* which getJobExitCode goes on to qacct.
C35_NoRetryNoSwallow ==
    /\ kCalls.qsub <= 1 /\ kCalls.qdel <= 1
    /\ kCalls.qsub + kCalls.qdel <= 1
    /\ CommandFailed => kRaised = "CalledProcessErrorStderr" /\ kResult = None
    /\ gQstatCalls <= 1
    /\ gPc \in {"lock", "copy", "qstat"} => gQstatCalls = 0
    /\ gPc = "done" => gQstatCalls = 1
    /\ gPc = "raised" /\ gQstatCalls = 1 => gTimes = <<>>
    /\ eQstatCalls <= 1 /\ eQacctCalls <= 1
    /\ (eQstat # None /\ ~eQstat.ok /\ ePc \in {"returned", "raised"}) =>
         IF InStderr(JobNotFoundSignature, eQstat.stderr)
         THEN eQacctCalls = 1
         ELSE ePc = "raised" /\ eRaised.stderr = eQstat.stderr /\ eQacctCalls = 0
    /\ (eQacct # None /\ ~eQacct.ok) =>
         /\ ePc = "raised" /\ eResult = None
         /\ eRaised = [type |-> "CalledProcessErrorStderr", stderr |-> eQacct.stderr]

\* A killJob whose qdel failed has raised.
C35_Witness ==
    /\ kMethod = "killJob"
    /\ CommandFailed
    /\ kCalls.qdel = 1
    /\ kRaised = "CalledProcessErrorStderr"

(***************************************************************************)
(* setAutoscaledNodeTypes when getNodeShape fails                          *)
(***************************************************************************)
\* The places <<k, j>> of the instance type names in a list of node types:
\* name j of node type k.
Places(nodeTypes) ==
    {<<k, j>> : k \in DOMAIN nodeTypes, j \in 1..MaxNodeTypes + 2} \cap
    UNION {{<<k, j>> : j \in DOMAIN nodeTypes[k].order} : k \in DOMAIN nodeTypes}

\* Place p is reached before place q by the two loops.
Earlier(p, q) == p[1] < q[1] \/ (p[1] = q[1] /\ p[2] < q[2])

\* The places with a name the cloud does not know, and the first of them.
UnknownPlaces(nodeTypes) ==
    {p \in Places(nodeTypes) : nodeTypes[p[1]].order[p[2]] \notin DOMAIN InstanceCatalog}

FirstUnknown(nodeTypes) ==
    CHOOSE p \in UnknownPlaces(nodeTypes) :
        \A q \in UnknownPlaces(nodeTypes) : q = p \/ Earlier(p, q)

\* The table entries of the places reached before the first unknown name: for
\* each shape among them, the name at the last such place with that shape.
EntriesBeforeFailure(nodeTypes) ==
    LET done == {p \in Places(nodeTypes) : Earlier(p, FirstUnknown(nodeTypes))}
        shapeAt(p) == ShapeIn(nodeTypes[p[1]], nodeTypes[p[1]].order[p[2]])
    IN  { <<shapeAt(p), nodeTypes[p[1]].order[p[2]]>> :
            p \in {q \in done : \A r \in done : shapeAt(r) = shapeAt(q) =>
                                                   (r = q \/ Earlier(r, q))} }

\* The bids of the node types reached up to the one with the first unknown
\* name: for each set of names among them, the bid of the last with a bid.
BidsBeforeFailure(nodeTypes) ==
    LET done == {k \in 1..FirstUnknown(nodeTypes)[1] : nodeTypes[k].bid # None}
    IN  { <<Range(nodeTypes[k].order), nodeTypes[k].bid>> :
            k \in {i \in done : \A m \in done :
                        Range(nodeTypes[m].order) = Range(nodeTypes[i].order) => m <= i} }

\* C38: when getNodeShape fails for an instance type in setAutoscaledNodeTypes
\* the call raises, and the two tables are left with the entries made before
\* the failure and nothing else: not what they held before the call, and
\* nothing of the node types after the failing name.
C38_FailureLeavesPartialTables ==
    /\ aOutcome = "raised" =>
         /\ UnknownPlaces(aArgs) # {}
         /\ aShapeTable # Unset /\ aSpotBids # Unset
         /\ Entries(aShapeTable) = EntriesBeforeFailure(aArgs)
         /\ Entries(aSpotBids) = BidsBeforeFailure(aArgs)
    /\ (aOutcome = "ok" /\ aArgs # <<>>) => UnknownPlaces(aArgs) = {}

\* A call failed on its second node type, at the name after "intel": the
\* entries of the earlier call are gone from both tables, and the tables hold
\* what the failed call had made.
C38_Witness ==
    /\ aOutcome = "raised"
    /\ aDropped
    /\ Len(aArgs) = 2
    /\ FirstUnknown(aArgs) = <<2, 2>>
    /\ Entries(aShapeTable) # {}
    /\ Entries(aSpotBids) # {}

(***************************************************************************)
(* Bootstrap documents within the user-data limit                          *)
(***************************************************************************)
\* C39: whenever the rendered document is no longer than the user-data
\* limit, the generation returns the rendered document itself and writes
\* nothing to cloud storage; a document of exactly the limit's length is among
\* these.
C39_WithinLimitIsInline ==
    dConfig # None /\ DocLen(ToIgnitionConfig(dConfig)) <= pLimit =>
        /\ dWrites = <<>>
        /\ dReturn = ToIgnitionConfig(dConfig)
        /\ "storage" \in DOMAIN dReturn

\* A document of exactly the limit's length was returned inline, with no
\* upload.
C39_Witness ==
    /\ dConfig # None /\ DocLen(ToIgnitionConfig(dConfig)) = pLimit
    /\ dWrites = <<>>
    /\ dReturn = ToIgnitionConfig(dConfig)
    /\ DocLen(dReturn) = pLimit

(***************************************************************************)
(* The order of the lines in the accounting output                         *)
(***************************************************************************)
\* No line before line i decides: each is neither `failed 1` nor
\* `exit_status`.
Undecided(lines, i) ==
    \A j \in 1..(i - 1) :
        /\ lines[j].key # "exit_status"
        /\ lines[j].key = "failed" => ParseInt(lines[j].val) # 1

\* C40: in the accounting fallback the first deciding line in output order
\* gives the result. A `failed` line with a value other than 1 gives none: an
\* output of such lines alone returns None, and when an `exit_status` line
\* follows, its value is returned. A `failed 1` line before an `exit_status`
\* line returns 1, and an `exit_status` line before a `failed 1` line returns
\* the exit status.
C40_FirstDecisiveLineWins ==
    (ePc = "returned" /\ eQacct # None /\ eQacct.ok) =>
        LET lines == eQacct.stdout IN
        /\ (\A i \in DOMAIN lines :
                lines[i].key = "failed" /\ ParseInt(lines[i].val) # 1)
              => eResult = None
        /\ \A i \in DOMAIN lines, j \in DOMAIN lines :
             (i < j /\ Undecided(lines, j)
                /\ lines[i].key = "failed" /\ lines[j].key = "exit_status")
               => eResult = Int_(ParseInt(lines[j].val))
        /\ \A i \in DOMAIN lines, j \in DOMAIN lines :
             (i < j /\ Undecided(lines, i)
                /\ lines[i].key = "failed" /\ ParseInt(lines[i].val) = 1
                /\ lines[j].key = "exit_status")
               => eResult = Int_(1)
        /\ \A i \in DOMAIN lines, j \in DOMAIN lines :
             (i < j /\ Undecided(lines, i)
                /\ lines[i].key = "exit_status"
                /\ lines[j].key = "failed" /\ ParseInt(lines[j].val) = 1)
               => eResult = Int_(ParseInt(lines[i].val))

\* The accounting output was `failed 1` and then `exit_status 0`, and 1 was
\* returned.
C40_Witness ==
    /\ ePc = "returned" /\ eQacct # None /\ eQacct.ok
    /\ eQacct.stdout = << [key |-> "failed", val |-> <<"1">>],
                          [key |-> "exit_status", val |-> <<"0">>] >>
    /\ eResult = Int_(1)

(***************************************************************************)
(* SystemTest.testAtomicityOfNonEmptyDirectoryRenames                      *)
(* (src/toil/test/src/systemTest.py): tasks in separate processes each     *)
(* make a temporary directory with a file in it and rename it to the same  *)
(* path.  Every call of a task is one step; the steps of different tasks   *)
(* come in any order.                                                      *)
(***************************************************************************)
\* most tasks in a round
MaxTasks == 3

\* The name of the directory `child`; the temporary directory of task t has
\* the name t, which is what mkdtemp's unique names come to.
Child == 0

\* The inode numbers that the file system hands out; it hands out one that no
\* file has at the time, so the number of a file that was removed can come
\* again.
Inodes == 1..MaxTasks

FilesIn(dir, files) == {f \in files : f[1] = dir}

\* The mutant of OsRename that replaces a directory that is there, as rename
\* does for files.
OsRenameReplacing(src, dst, dirs, files) ==
    { [errno |-> "none",
       dirs  |-> (dirs \ {src}) \cup {dst},
       files |-> {f \in files : f[1] \notin {src, dst}}
                    \cup {<<dst, f[2]>> : f \in FilesIn(src, files)}] }

\* os.rename(src, dst) for a directory src: what it may answer, with the
\* directories and files after it.  Onto a directory that is there and not
\* empty it fails, with ENOTEMPTY or with EEXIST; otherwise src takes the name
\* dst in one step.
OsRename(src, dst, dirs, files) ==
    IF dst \in dirs /\ FilesIn(dst, files) # {}
    THEN { [errno |-> e, dirs |-> dirs, files |-> files] : e \in {"ENOTEMPTY", "EEXIST"} }
    ELSE { [errno |-> "none",
            dirs  |-> (dirs \ {src}) \cup {dst},
            files |-> {f \in files : f[1] # src}
                         \cup {<<dst, f[2]>> : f \in FilesIn(src, files)}] }

Tasks == 1..tNumTasks

\* A round begins: a new parent directory with nothing in it, and numTasks
\* tasks handed to the pool.
RenameInit ==
    /\ tNumTasks \in 1..MaxTasks
    /\ tPc = [t \in 1..tNumTasks |-> "mkdtemp"]
    /\ tDirs = {}
    /\ tFiles = {}
    /\ tGrandChildId = [t \in 1..tNumTasks |-> 0]
    /\ tErrno = [t \in 1..tNumTasks |-> "pending"]
    /\ tResult = [t \in 1..tNumTasks |-> Unset]
    /\ tVerdict = "open"

\* tmpChildDir = mkdtemp(dir=parent, prefix="child", suffix=".tmp")
Mkdtemp(t) ==
    /\ tPc[t] = "mkdtemp"
    /\ tDirs' = tDirs \cup {t}
    /\ tPc' = [tPc EXCEPT ![t] = "open"]
    /\ UNCHANGED <<tNumTasks, tFiles, tGrandChildId, tErrno, tResult, tVerdict>>
    /\ UNCHANGED notRename

\* open(grandChild, "w").close()
OpenGrandChild(t) ==
    /\ tPc[t] = "open"
    /\ \E ino \in Inodes \ {f[2] : f \in tFiles} :
         tFiles' = tFiles \cup {<<t, ino>>}
    /\ tPc' = [tPc EXCEPT ![t] = "stat"]
    /\ UNCHANGED <<tNumTasks, tDirs, tGrandChildId, tErrno, tResult, tVerdict>>
    /\ UNCHANGED notRename

\* grandChildId = os.stat(grandChild).st_ino
StatGrandChild(t) ==
    /\ tPc[t] = "stat"
    /\ \E f \in FilesIn(t, tFiles) :
         tGrandChildId' = [tGrandChildId EXCEPT ![t] = f[2]]
    /\ tPc' = [tPc EXCEPT ![t] = "rename"]
    /\ UNCHANGED <<tNumTasks, tDirs, tFiles, tErrno, tResult, tVerdict>>
    /\ UNCHANGED notRename

\* os.rename(tmpChildDir, child), and the return of the winner.
RenameToChild(t) ==
    /\ tPc[t] = "rename"
    /\ \E out \in OsRename(t, Child, tDirs, tFiles) :
         /\ tDirs' = out.dirs
         /\ tFiles' = out.files
         /\ tErrno' = [tErrno EXCEPT ![t] = out.errno]
         /\ IF out.errno = "none"
            THEN /\ tPc' = [tPc EXCEPT ![t] = "done"]
                 /\ tResult' = [tResult EXCEPT ![t] = Int_(tGrandChildId[t])]
            ELSE /\ tPc' = [tPc EXCEPT ![t] = "unlink"]
                 /\ UNCHANGED tResult
    /\ UNCHANGED <<tNumTasks, tGrandChildId, tVerdict>>
    /\ UNCHANGED notRename

\* os.unlink(grandChild), in the handler of ENOTEMPTY and EEXIST
UnlinkGrandChild(t) ==
    /\ tPc[t] = "unlink"
    /\ tFiles' = tFiles \ FilesIn(t, tFiles)
    /\ tPc' = [tPc EXCEPT ![t] = "rmdir"]
    /\ UNCHANGED <<tNumTasks, tDirs, tGrandChildId, tErrno, tResult, tVerdict>>
    /\ UNCHANGED notRename

\* os.rmdir(tmpChildDir); return None
RmdirTmp(t) ==
    /\ tPc[t] = "rmdir"
    /\ FilesIn(t, tFiles) = {}
    /\ tDirs' = tDirs \ {t}
    /\ tPc' = [tPc EXCEPT ![t] = "done"]
    /\ tResult' = [tResult EXCEPT ![t] = None]
    /\ UNCHANGED <<tNumTasks, tFiles, tGrandChildId, tErrno, tVerdict>>
    /\ UNCHANGED notRename

\* The assertions after the pool has answered: one result is not None, and
\* the file child/grandChild has the inode that result names.
RunAssertions ==
    /\ tVerdict = "open"
    /\ tNumTasks > 0
    /\ \A t \in Tasks : tPc[t] = "done"
    /\ LET grandChildIds == {t \in Tasks : tResult[t] # None}
       IN  tVerdict' =
             IF /\ Cardinality(grandChildIds) = 1
                /\ \A t \in grandChildIds :
                      FilesIn(Child, tFiles) = {<<Child, tResult[t].v>>}
             THEN "pass" ELSE "fail"
    /\ UNCHANGED <<tNumTasks, tPc, tDirs, tFiles, tGrandChildId, tErrno, tResult>>
    /\ UNCHANGED notRename

\* The next pass of `for _ in range(100)`: a new parent and new tasks.
NextRound ==
    /\ tVerdict = "pass"
    /\ \E n \in 1..MaxTasks :
         /\ tNumTasks' = n
         /\ tPc' = [t \in 1..n |-> "mkdtemp"]
         /\ tGrandChildId' = [t \in 1..n |-> 0]
         /\ tErrno' = [t \in 1..n |-> "pending"]
         /\ tResult' = [t \in 1..n |-> Unset]
    /\ tDirs' = {}
    /\ tFiles' = {}
    /\ tVerdict' = "open"
    /\ UNCHANGED notRename

InitRename == ExitIdle /\ RunIdle /\ AutoIdle /\ ProvIdle /\ ShapeIdle /\ CtorIdle /\ ConfigIdle /\ QsubIdle /\ BootIdle /\ AdapterIdle /\ RenameInit /\ SharedIdle

NextRename ==
    \/ \E t \in Tasks : Mkdtemp(t)
    \/ \E t \in Tasks : OpenGrandChild(t)
    \/ \E t \in Tasks : StatGrandChild(t)
    \/ \E t \in Tasks : RenameToChild(t)
    \/ \E t \in Tasks : UnlinkGrandChild(t)
    \/ \E t \in Tasks : RmdirTmp(t)
    \/ RunAssertions
    \/ NextRound

SpecRename == InitRename /\ [][NextRename]_vars

\* The tasks whose rename went through.
Winners == {t \in Tasks : tErrno[t] = "none"}

SharedInit == SharedIdle

\* The writer goes on from name j of node type k to the next name, to the
\* next node type, or to the end of the call.
AfterInstance(k, j) ==
    IF j < Len(wArgs[k].order) THEN [pc |-> "instance", k |-> k, j |-> j + 1]
    ELSE IF k < Len(wArgs) THEN [pc |-> "nodeType", k |-> k + 1, j |-> 1]
    ELSE [pc |-> "idle", k |-> 1, j |-> 1]

\* setAutoscaledNodeTypes(nodeTypes) is entered.
WriterBegin(nodeTypes) ==
    /\ wPc = "idle"
    /\ wArgs' = nodeTypes
    /\ wBefore' = wShapeTable
    /\ wPc' = "bids"
    /\ wK' = 1 /\ wJ' = 1
    /\ vRet' = None
    /\ UNCHANGED <<wShapeTable, wSpotBids, wOutcome, vPc>>
    /\ UNCHANGED notShared

\* self._spotBidsMap = {}
WriterClearBids ==
    /\ wPc = "bids"
    /\ wSpotBids' = Dict_(<<>>)
    /\ wPc' = "table"
    /\ UNCHANGED <<wShapeTable, wArgs, wK, wJ, wBefore, wOutcome, vPc, vRet>>
    /\ UNCHANGED notShared

\* self._shape_to_instance_type = {}, and the test of the outer loop.
WriterClearTable ==
    /\ wPc = "table"
    /\ wShapeTable' = Dict_(<<>>)
    /\ wPc' = IF wArgs = <<>> THEN "idle" ELSE "nodeType"
    /\ wOutcome' = IF wArgs = <<>> THEN "ok" ELSE wOutcome
    /\ UNCHANGED <<wSpotBids, wArgs, wK, wJ, wBefore, vPc, vRet>>
    /\ UNCHANGED notShared

\* The head of the outer loop's body: the bid of node type wK is recorded
\* when it has one.
WriterNodeType ==
    /\ wPc = "nodeType"
    /\ LET node_type == wArgs[wK] IN
       wSpotBids' = IF IsPreemptible(node_type)
                    THEN Dict_(DictSetPlain(wSpotBids.v, Range(node_type.order),
                                            node_type.bid))
                    ELSE wSpotBids
    /\ wPc' = "instance"
    /\ wJ' = 1
    /\ UNCHANGED <<wShapeTable, wArgs, wK, wBefore, wOutcome, vPc, vRet>>
    /\ UNCHANGED notShared

\* The inner loop's body for name wJ of node type wK: getNodeShape, and the
\* store into the table, or the error that ends the call.
WriterInstance ==
    /\ wPc = "instance"
    /\ LET node_type == wArgs[wK]
           name == node_type.order[wJ]
           got == GetNodeShape(name, IsPreemptible(node_type))
           next == AfterInstance(wK, wJ)
       IN  IF ~got.ok
           THEN /\ wPc' = "idle"
                /\ wOutcome' = "raised"
                /\ UNCHANGED <<wShapeTable, wK, wJ>>
           ELSE /\ wShapeTable' = Dict_(DictSet(wShapeTable.v, got.shape, name))
                /\ wPc' = next.pc
                /\ wK' = next.k
                /\ wJ' = next.j
                /\ wOutcome' = IF next.pc = "idle" THEN "ok" ELSE wOutcome
    /\ UNCHANGED <<wSpotBids, wArgs, wBefore, vPc, vRet>>
    /\ UNCHANGED notShared

\* getAutoscaledInstanceShapes() is entered: hasattr(self,
\* "_shape_to_instance_type"), and `return {}` when it answers False.
ReaderHasattr ==
    /\ vPc \in {"idle", "returned"}
    /\ IF wShapeTable = Unset
       THEN /\ vPc' = "returned"
            /\ vRet' = [val |-> Dict_(<<>>), pc |-> wPc, k |-> wK, j |-> wJ]
       ELSE /\ vPc' = "copy"
            /\ vRet' = None
    /\ UNCHANGED <<wShapeTable, wSpotBids, wArgs, wPc, wK, wJ, wBefore, wOutcome>>
    /\ UNCHANGED notShared

\* The mutant of ReaderCopy that waits until no call of
\* setAutoscaledNodeTypes is running, as under a lock the two methods shared.
ReaderCopyUnderLock ==
    /\ vPc = "copy"
    /\ wPc = "idle"
    /\ vPc' = "returned"
    /\ vRet' = [val |-> Dict_(wShapeTable.v), pc |-> wPc, k |-> wK, j |-> wJ]
    /\ UNCHANGED <<wShapeTable, wSpotBids, wArgs, wPc, wK, wJ, wBefore, wOutcome>>
    /\ UNCHANGED notShared

\* return dict(self._shape_to_instance_type)
ReaderCopy ==
    /\ vPc = "copy"
    /\ vPc' = "returned"
    /\ vRet' = [val |-> Dict_(wShapeTable.v), pc |-> wPc, k |-> wK, j |-> wJ]
    /\ UNCHANGED <<wShapeTable, wSpotBids, wArgs, wPc, wK, wJ, wBefore, wOutcome>>
    /\ UNCHANGED notShared

InitShared ==
    ExitIdle /\ RunIdle /\ AutoIdle /\ ProvIdle /\ ShapeIdle /\ CtorIdle /\ ConfigIdle
        /\ QsubIdle /\ BootIdle /\ AdapterIdle /\ RenameIdle /\ SharedInit

NextShared ==
    \/ \E nodeTypes \in NodeTypeLists : WriterBegin(nodeTypes)
    \/ WriterClearBids
    \/ WriterClearTable
    \/ WriterNodeType
    \/ WriterInstance
    \/ ReaderHasattr
    \/ ReaderCopy

SpecShared == InitShared /\ [][NextShared]_vars

\* The table entries of the places of nodeTypes reached before place: for
\* each shape among them, the name at the last such place with that shape.
EntriesBefore(nodeTypes, place) ==
    LET done == {p \in Places(nodeTypes) : Earlier(p, place)}
        shapeAt(p) == ShapeIn(nodeTypes[p[1]], nodeTypes[p[1]].order[p[2]])
    IN  { <<shapeAt(p), nodeTypes[p[1]].order[p[2]]>> :
            p \in {q \in done : \A r \in done : shapeAt(r) = shapeAt(q) =>
                                                   (r = q \/ Earlier(r, q))} }

\* The complete table of a call with these node types, when no name fails.
CompleteEntries(nodeTypes) == EntriesBefore(nodeTypes, <<Len(nodeTypes) + 1, 1>>)

\* What the table held when the writer was at the place of the read.
EntriesAt(read) ==
    CASE read.pc \in {"bids", "table"} -> Entries(wBefore)
      [] read.pc = "nodeType" -> EntriesBefore(wArgs, <<read.k, 1>>)
      [] read.pc = "instance" -> EntriesBefore(wArgs, <<read.k, read.j>>)
      [] OTHER -> IF wOutcome = "none" THEN {}
                  ELSE IF wOutcome = "raised" THEN EntriesBeforeFailure(wArgs)
                  ELSE CompleteEntries(wArgs)

\* C36: no lock stands between setAutoscaledNodeTypes and
\* getAutoscaledInstanceShapes: the copy of a read is never made to wait for
\* a running call, and a read returns what the table holds at that instant,
\* which is the previous table until line 356 has run and from then on the
\* entries of the names the loops have got through.
C36_ReadsSeeTableInTheMaking ==
    /\ vPc = "copy" => ENABLED ReaderCopy
    /\ vRet # None => Entries(vRet.val) = EntriesAt(vRet)

\* A read that came between the stores of a running call got a table that is
\* neither the one from before the call nor the one the call ends with: it
\* is not empty and holds a part of the new table.
C36_Witness ==
    /\ vRet # None
    /\ vRet.pc = "instance"
    /\ wPc = "idle" /\ wOutcome = "ok"
    /\ Entries(vRet.val) # Entries(wBefore)
    /\ Entries(vRet.val) # Entries(wShapeTable)
    /\ Entries(vRet.val) # {}
    /\ Entries(wBefore) # {}
    /\ Entries(vRet.val) \subseteq Entries(wShapeTable)

=============================================================================
